---- MODULE Spec2Model ----
(***************************************************************************)
(* Verification model of sh-3ds: the game-state tracker                    *)
(* (FSM/CXXStateTreeFSM.cpp) and the screen locator                        *)
(* (Capture/ScreenDetector.cpp).                                           *)
(*                                                                         *)
(* Abstractions.  A frame handed to the tracker is represented by the      *)
(* confidence each state's detection rule computes on it (the value of     *)
(* EvaluateColorHistogram / EvaluateTemplateMatch), in percent.  The       *)
(* tracker runs in Dual screen mode.  Time is counted in clock units of    *)
(* 1/UnitsPerMs millisecond, so that the truncation to whole milliseconds  *)
(* in GetTimeInCurrentState is visible.                                    *)
(***************************************************************************)
EXTENDS Integers, Sequences, FiniteSets, TLC

VARIABLES
    \* ---- CXXStateTreeFSM fields
    debounceFrames,     \* int debounceFrames
    currentState,       \* Core::GameState currentState
    stateEnteredAt,     \* steady_clock::time_point stateEnteredAt
    pendingState,       \* Core::GameState pendingState ("" = cleared)
    pendingFrameCount,  \* int pendingFrameCount
    transitionHistory,  \* std::vector<Core::StateTransition>
    treeState,          \* current state of the CXXStateTree instance
    \* ---- observations of the last tracker call
    fsmResult,          \* value returned by the last Update
    stuckResult,        \* value returned by the last IsStuck
    lastOp,             \* name of the last operation executed
    now,                \* std::chrono::steady_clock::now(), in clock units
    \* ---- history variables used by the properties
    allCommitted,       \* every transition returned since the last Reset
    streakState,        \* the state the last ticks selected as winner
    streakLen,          \* how many consecutive ticks selected streakState
    prevCurrent,        \* currentState before the last Update
    ticksSinceReset,    \* Update calls since construction / Reset
    unreachableTicks,   \* consecutive frames strongly matching an unreachable state
    resetFromPending,   \* the last Reset found a partly counted candidate
    advances,           \* clock advances made so far
    \* ---- ScreenDetector fields
    calibrationFrames,          \* config.calibrationFrames
    smoothingWindowSize,        \* config.smoothingWindowSize
    calibrated,                 \* bool calibrated
    calibratedResult,           \* ScreenDetectionResult calibratedResult
    calibrationWindow,          \* std::deque<bool> calibrationWindow
    smoothedTopCorners,         \* optional corners (<<>> = nullopt)
    smoothedBottomCorners,
    framesSinceTopDetection,
    framesSinceBottomDetection,
    splitPointY,                \* 4 * splitPointY (-4 = unknown)
    \* ---- observations and history variables of the screen locator
    detectResult,       \* value returned by the last Detect
    sdLastOp,           \* last ScreenDetector operation
    lastFrame,          \* name of the frame given to the last Detect
    calibratedBefore,   \* calibrated, before the last operation
    realWindow,         \* per window entry: did the frame itself show both
    bothRun,            \* Detect calls since fresh/Reset, all showing both
                        \* screens (-1 once a frame did not)
    detectCalls,        \* Detect calls made in this run
    misses,             \* frames not showing both screens in this run
    missRun,            \* per role: consecutive frames missing the role since
                        \* its last detection (-1 = not detected so far)
    lastSmoothed,       \* per role: smoothed corners at its last detection
    \* ---- SoftResetStrategy fields
    huntConfig,             \* Core::HuntConfig config (the fields Tick reads)
    stats,                  \* Core::HuntStatistics stats
    lastState,              \* Core::GameState lastState
    actionIndex,            \* int actionIndex
    lastActionTime,         \* steady_clock::time_point lastActionTime
    waitingForShinyCheck,   \* bool waitingForShinyCheck
    consecutiveStuckCount,  \* int consecutiveStuckCount
    \* ---- observations and history variables of the strategy
    decision,           \* StrategyDecision returned by the last Tick / OnStuck
    stratOp,            \* last strategy operation
    tickInput,          \* arguments of the last Tick
    prevStrat,          \* stats, actionIndex, consecutiveStuckCount before it
    stayChanged,        \* the last Tick was given another state than the one before
    stuckRun,           \* OnStuck calls since the last state change or Reset
    alertsInStay,       \* Alert decisions since the last state change or Reset
    resolvedInStay,     \* a verdict resolved the check in this stay: 0 = no,
                        \* 1 = by the last Tick, 2 = earlier
    stratCalls,         \* strategy calls made in this run
    \* ---- Orchestrator fields, and the connection state of its transport
    orchConfig,         \* config.dryRun and which components are present
    running,            \* std::atomic<bool> running
    watchdogStuckCount, \* watchdogStuckCount
    connected,          \* input->IsConnected()
    pc,                 \* where Run stands: idle, entered, loop, cleanup, returned
    \* ---- observations and history variables of the orchestrator
    orchOp,             \* last step of the orchestrator
    lastEv,             \* the event of the last tick
    tickCalls,          \* calls made on the components by the last tick
    runLog,             \* calls made on the transport since Run was entered
    ticks,              \* ticks started
    threwInTick,        \* the last tick ended by an exception
    decidedStop,        \* the last tick's decision was Alert or Abort
    propagated,         \* Run was left by an exception
    cleanupThrew,       \* the ReleaseAll of the cleanup threw
    stopRequested,      \* Stop() was called from outside since Run was entered
    exhausted,          \* the frame source has no further frame
    prevOrch,           \* running and watchdogStuckCount before the last step
    \* ---- one call of a function that keeps no state
    callName,           \* the function called, "" before the call
    callArgs,           \* its arguments
    callResult,         \* what it returned or threw
    \* ---- threads calling the public operations of one ScreenDetector
    mutexOwner,         \* the thread holding ScreenDetector::mutex, 0 = none
    threadAt,           \* per thread: the operation it executes and its next step
    lastAccess,         \* the last access to a mutable field
    \* ---- history variables of one stay of the strategy in a state
    emitted,            \* the steps (by position) sent as SendInput in this stay
    lastEmit,           \* reading and waitAfterMs of the last button step sent
    stay,               \* the tracker's state at the last tick and its entry time
    \* ---- the single-ROI tracker (ConfigDrivenFSM), fields and observations
    roiCurrentState,    \* currentState
    roiStateEnteredAt,  \* stateEnteredAt
    roiPendingState,    \* pendingState
    roiPendingFrameCount, \* pendingFrameCount
    roiHistory,         \* history
    roiResult,          \* what the last Update returned
    roiOp,              \* last operation applied
    roiPrev             \* currentState, pendingState and history before it

fsmVars == <<debounceFrames, currentState, stateEnteredAt, pendingState,
             pendingFrameCount, transitionHistory, treeState, fsmResult,
             stuckResult, lastOp, now, allCommitted, streakState, streakLen,
             prevCurrent, ticksSinceReset, unreachableTicks, resetFromPending,
             advances>>

screenFields == <<calibrationFrames, smoothingWindowSize, calibrated,
                  calibratedResult, calibrationWindow, smoothedTopCorners,
                  smoothedBottomCorners, framesSinceTopDetection,
                  framesSinceBottomDetection, splitPointY>>

screenVars == <<screenFields, detectResult, sdLastOp, lastFrame,
                calibratedBefore, realWindow,
                bothRun, detectCalls, misses, missRun, lastSmoothed>>

(***************************************************************************)
(* Bounds of the model.                                                    *)
(***************************************************************************)
MaxCalibFrames == 3     \* calibrationFrames ranges over 1..MaxCalibFrames
MaxSmoothing == 2       \* smoothingWindowSize ranges over 0..MaxSmoothing
MaxDetects == 5         \* Detect calls explored per run
CalibExtra == 3         \* Detect calls explored beyond kCalibrationWindowSize
MaxMisses == 1          \* frames without both screens in a long run
MaxDebounce == 3        \* debounceFrames ranges over 1..MaxDebounce
MaxCommits == 2         \* commits explored per run of the tracker
MaxAdvances == 2        \* clock advances explored per run
MaxStuckCommits == 2    \* commits explored per run with a running clock
UnitsPerMs == 2         \* clock resolution: units per millisecond
HistExtra == 502        \* commits explored beyond kHistoryMax
HistResetWindow == 2    \* latest clock reading at which Reset is explored
ChainExtra == 2         \* commits explored beyond kHistoryMax, with idle updates
MaxStratCalls == 3      \* strategy calls explored per run
MaxRetries == 2         \* onStuck.maxRetries ranges over 0..MaxRetries
MaxTicks == 3           \* ticks explored per Run
MaxStratClock == 1      \* latest clock reading (ms) explored with the strategy
MaxStepCalls == 4       \* strategy calls explored per run through action lists
MaxStepClock == 4       \* latest clock reading (ms) explored with action lists
MaxStayClock == 3       \* clock readings (ms) told apart during one long stay
StayTickCycle == 2      \* ticks of a long stay are counted modulo this
MaxOnceDetects == 2     \* Detect calls explored around a DetectOnce call
RoiDebounce == 2        \* profile.debounceFrames of the single-ROI tracker
MaxRoiCommits == 2      \* transitions of the single-ROI tracker explored per run
MaxRoiPending == 3      \* largest pendingFrameCount explored

(***************************************************************************)
(* Program constants.                                                      *)
(***************************************************************************)
kHistoryMax == 1000     \* RecordTransition: size() > 1000
kHistoryDrop == 500     \* RecordTransition: erase first 500
kMinConfidence == 1     \* Update: confidence < 0.01 (percent)
kMsPerSecond == 1000    \* std::chrono::seconds -> milliseconds
kUnknownMaxDurationS == 120 \* IsStuck: state without a config
kCalibrationWindowSize == 20    \* ScreenDetector.h
kSuccessNum == 4        \* kCalibrationSuccessThreshold = 0.8 = 4/5
kSuccessDen == 5
kTopAspect == 166       \* Core::kTopScreenAspectRatio (400/240), percent
kBottomAspect == 133    \* Core::kBottomScreenAspectRatio (320/240), percent
kStuckHoldMs == 500     \* OnStuck: .delay = std::chrono::milliseconds(500)

(***************************************************************************)
(* The state graph the tracker is built with (Builder::AddState), in the   *)
(* order of stateConfigs.                                                  *)
(***************************************************************************)
StateIds == {"A", "B", "C", "D"}

initialState == "A"

stateConfigs ==
    << [id |-> "A", transitionsTo |-> <<"B", "C">>, maxDurationS |-> 1,
        hasTop |-> TRUE, hasBottom |-> FALSE,
        topThreshold |-> 50, bottomThreshold |-> 0],
       [id |-> "B", transitionsTo |-> <<"A", "D">>, maxDurationS |-> 1,
        hasTop |-> TRUE, hasBottom |-> FALSE,
        topThreshold |-> 50, bottomThreshold |-> 0],
       [id |-> "C", transitionsTo |-> <<>>, maxDurationS |-> 0,
        hasTop |-> TRUE, hasBottom |-> TRUE,
        topThreshold |-> 70, bottomThreshold |-> 50],
       [id |-> "D", transitionsTo |-> <<"A">>, maxDurationS |-> 0,
        hasTop |-> TRUE, hasBottom |-> FALSE,
        topThreshold |-> 50, bottomThreshold |-> 0] >>

ConfLevels == {0, 60, 90}

BottomLevels == {0, 90}

\* A frame: the raw confidence of every state's top rule and of the bottom
\* rule of the one state that has one (two levels for D and the bottom
\* rule, three for the others).
Frames ==
    { f \in { [top |-> t, bottom |-> b] :
                t \in [StateIds -> ConfLevels], b \in [{"C"} -> BottomLevels] } :
        f.top["D"] \in BottomLevels }

Range(s) == { s[i] : i \in 1..Len(s) }

NoTransition == [from |-> "", to |-> "", timestamp |-> 0]

None == -1

\* FindStateConfig: index of the first config with this id, 0 for nullptr.
FindStateConfig(id) ==
    IF \E i \in 1..Len(stateConfigs) : stateConfigs[i].id = id
    THEN CHOOSE i \in 1..Len(stateConfigs) :
            /\ stateConfigs[i].id = id
            /\ \A j \in 1..(i - 1) : stateConfigs[j].id # id
    ELSE 0

\* The targets listed for a state (empty for a state without config).
TransitionsTo(id) ==
    IF FindStateConfig(id) = 0 THEN {}
    ELSE Range(stateConfigs[FindStateConfig(id)].transitionsTo)

\* evaluateForRoi: nullopt (None) without parameters or below the
\* threshold, else the confidence.
EvaluateForRoi(hasParams, confidence, threshold) ==
    IF ~hasParams THEN None
    ELSE IF confidence < threshold THEN None
    ELSE confidence

Min(a, b) == IF a < b THEN a ELSE b

\* The Dual-mode branch of the candidate loop: None stands for `continue'.
CombinedConfidence(sc, frame) ==
    LET topC == EvaluateForRoi(sc.hasTop, frame.top[sc.id], sc.topThreshold)
        botC == IF sc.hasBottom
                THEN EvaluateForRoi(TRUE, frame.bottom[sc.id], sc.bottomThreshold)
                ELSE None
    IN  IF ~sc.hasTop /\ ~sc.hasBottom THEN None
        ELSE IF sc.hasTop /\ sc.hasBottom
             THEN IF topC = None \/ botC = None THEN None ELSE Min(topC, botC)
        ELSE IF sc.hasTop THEN topC
        ELSE botC

\* The candidates vector of DetectBestCandidateState: the current state and
\* its transitionsTo when the current state has a config (constrained),
\* every configured state otherwise.
Candidates(cur) ==
    IF FindStateConfig(cur) # 0
    THEN {cur} \cup TransitionsTo(cur)
    ELSE { stateConfigs[i].id : i \in 1..Len(stateConfigs) }

RECURSIVE DetectLoop(_, _, _, _)
DetectLoop(i, best, frame, candidates) ==
    IF i > Len(stateConfigs) THEN best
    ELSE LET sc == stateConfigs[i]
             c == CombinedConfidence(sc, frame)
         IN  IF sc.id \notin candidates THEN DetectLoop(i + 1, best, frame, candidates)
             ELSE IF c = None THEN DetectLoop(i + 1, best, frame, candidates)
             ELSE IF c > best.confidence
                  THEN DetectLoop(i + 1, [state |-> sc.id, confidence |-> c],
                                  frame, candidates)
             ELSE DetectLoop(i + 1, best, frame, candidates)

DetectBestCandidateState(frame, candidates) ==
    DetectLoop(1, [state |-> "", confidence |-> 0], frame, candidates)

\* The winner of a tick: the state Update goes on with, "" when the tick
\* selects no state (first early return of Update).
Winner(frame, candidates) ==
    LET best == DetectBestCandidateState(frame, candidates)
    IN  IF best.state = "" \/ best.confidence < kMinConfidence THEN ""
        ELSE best.state

\* The state a tick favours, stated on the graph itself: a state that is
\* the current one or one of its listed targets, meets its own threshold,
\* and outscores every other such state (the earlier config wins a tie);
\* "" when there is none.
Reachable(id) ==
    UNION { Range(stateConfigs[i].transitionsTo) :
              i \in { j \in 1..Len(stateConfigs) : stateConfigs[j].id = id } }

Favoured(frame, cur) ==
    LET legal == { i \in 1..Len(stateConfigs) :
                     /\ stateConfigs[i].id \in {cur} \cup Reachable(cur)
                     /\ CombinedConfidence(stateConfigs[i], frame) >= kMinConfidence }
        score(i) == CombinedConfidence(stateConfigs[i], frame)
        best == { i \in legal :
                    \A j \in legal \ {i} :
                        score(j) < score(i) \/ (score(j) = score(i) /\ i < j) }
    IN  IF best = {} THEN "" ELSE stateConfigs[CHOOSE i \in best : TRUE].id

\* A frame on which some state that is neither the current one nor one of
\* its listed targets reaches the highest confidence level.
StronglyMatchesUnreachable(frame, cur) ==
    \E i \in 1..Len(stateConfigs) :
        /\ stateConfigs[i].id \notin {cur} \cup Reachable(cur)
        /\ \A c \in ConfLevels : CombinedConfidence(stateConfigs[i], frame) >= c

\* Debounce counter that is not restarted by a different winner.
NextPendingCountNoRestart(winner, pending, count) == count + 1

\* Update lines 91-99: the counter after a tick whose winner is a state
\* other than the current one.
NextPendingCount(winner, pending, count) ==
    IF winner = pending THEN count + 1 ELSE 1

\* Commit test that needs one tick more than debounceFrames.
DebounceReachedLate(count, frames) == count > frames

\* Update line 101: enough consecutive ticks counted.
DebounceReached(count, frames) == ~(count < frames)

\* Update lines 106-116: the targets the commit-time check lets through;
\* every state when the current state has no config or an empty list.
AllowedTargets(cur) ==
    LET k == FindStateConfig(cur)
    IN  IF k # 0 /\ Len(stateConfigs[k].transitionsTo) > 0
        THEN Range(stateConfigs[k].transitionsTo)
        ELSE StateIds

\* tree->send("goto_" + target): the tree built in Build()/Reset() has an
\* event goto_<target> on a state exactly for its transitionsTo; send
\* throws std::runtime_error for every other target.
TreeTargets(tstate) ==
    IF FindStateConfig(tstate) = 0 THEN {}
    ELSE Range(stateConfigs[FindStateConfig(tstate)].transitionsTo)

\* RecordTransition that prunes instead of storing the new transition.
RecordTransitionLosesPushed(history, transition) ==
    IF Len(history) + 1 > kHistoryMax
    THEN SubSeq(history, kHistoryDrop + 1, Len(history))
    ELSE Append(history, transition)

\* RecordTransition that drops the newest entries instead of the oldest.
RecordTransitionDropNewest(history, transition) ==
    LET h == Append(history, transition)
    IN  IF Len(h) > kHistoryMax
        THEN SubSeq(h, 1, Len(h) - kHistoryDrop)
        ELSE h

\* RecordTransition: push_back, then erase the first 500 once over 1000.
RecordTransition(history, transition) ==
    LET h == Append(history, transition)
    IN  IF Len(h) > kHistoryMax
        THEN SubSeq(h, kHistoryDrop + 1, Len(h))
        ELSE h

\* A transition record that names the target as its origin.
StateTransitionFromTarget(from, to, t) == [from |-> to, to |-> to, timestamp |-> t]

\* Update lines 125-127: Core::StateTransition{ .from, .to, .timestamp }.
StateTransition(from, to, t) == [from |-> from, to |-> to, timestamp |-> t]

\* CXXStateTreeFSM::Update on a frame, with t the reading of
\* steady_clock::now() taken for the transition timestamp.  candidates,
\* allowed and accepted are the three places that consult the state graph:
\* the candidate filter, the commit-time check and the tree.
UpdateBody(frame, t, candidates, allowed, accepted) ==
    LET w == Winner(frame, candidates)
        cnt == NextPendingCount(w, pendingState, pendingFrameCount)
        commit == /\ w # "" /\ w # currentState
                  /\ DebounceReached(cnt, debounceFrames)
                  /\ w \in allowed
                  /\ w \in accepted
        tr == StateTransition(currentState, w, t)
    IN  /\ (IF w = ""
           THEN /\ pendingFrameCount' = 0
                /\ UNCHANGED <<pendingState, currentState, stateEnteredAt,
                               transitionHistory, treeState>>
                /\ fsmResult' = NoTransition
           ELSE IF w = currentState
           THEN /\ pendingState' = ""
                /\ pendingFrameCount' = 0
                /\ UNCHANGED <<currentState, stateEnteredAt,
                               transitionHistory, treeState>>
                /\ fsmResult' = NoTransition
           ELSE IF ~DebounceReached(cnt, debounceFrames)
           THEN /\ pendingState' = w
                /\ pendingFrameCount' = cnt
                /\ UNCHANGED <<currentState, stateEnteredAt,
                               transitionHistory, treeState>>
                /\ fsmResult' = NoTransition
           ELSE IF ~commit
           THEN /\ pendingState' = ""
                /\ pendingFrameCount' = 0
                /\ UNCHANGED <<currentState, stateEnteredAt,
                               transitionHistory, treeState>>
                /\ fsmResult' = NoTransition
           ELSE /\ treeState' = w
                /\ currentState' = w
                /\ stateEnteredAt' = t
                /\ pendingState' = w
                /\ pendingFrameCount' = 0
                /\ transitionHistory' = RecordTransition(transitionHistory, tr)
                /\ fsmResult' = tr)
       \* history variables
       /\ allCommitted' = (IF fsmResult' # NoTransition
                           THEN Append(allCommitted, fsmResult')
                           ELSE allCommitted)
       /\ (LET fav == Favoured(frame, currentState)
           IN  /\ streakState' = (IF fav = currentState THEN "" ELSE fav)
               /\ streakLen' = (IF fav = "" \/ fav = currentState THEN 0
                                ELSE IF fav = streakState THEN streakLen + 1
                                ELSE 1))
       /\ prevCurrent' = currentState
       /\ ticksSinceReset' = Min(ticksSinceReset + 1, MaxDebounce + 1)
       /\ unreachableTicks' = (IF StronglyMatchesUnreachable(frame, currentState)
                              THEN Min(unreachableTicks + 1, MaxDebounce + 1)
                              ELSE 0)
       /\ lastOp' = "Update"
       /\ UNCHANGED <<debounceFrames, stuckResult, advances, resetFromPending>>

\* Update without any check of the target against the state graph.
UpdateUnvalidated(frame, t) ==
    UpdateBody(frame, t, StateIds, StateIds, StateIds)

\* Update whose candidate filter and tree validation are missing; only the
\* commit-time check against a non-empty transitionsTo is left.
UpdateUnfiltered(frame, t) ==
    UpdateBody(frame, t, StateIds, AllowedTargets(currentState), StateIds)

Update(frame, t) ==
    UpdateBody(frame, t, Candidates(currentState), AllowedTargets(currentState),
               TreeTargets(treeState))

\* Reset that keeps the debounce bookkeeping.
ResetKeepPending(t) ==
    /\ treeState' = initialState
    /\ currentState' = initialState
    /\ stateEnteredAt' = t
    /\ transitionHistory' = <<>>
    /\ allCommitted' = <<>>
    /\ streakState' = ""
    /\ streakLen' = 0
    /\ prevCurrent' = currentState
    /\ ticksSinceReset' = 0
    /\ unreachableTicks' = 0
    /\ resetFromPending' = (pendingFrameCount > 0)
    /\ lastOp' = "Reset"
    /\ UNCHANGED <<pendingState, pendingFrameCount, debounceFrames,
                   fsmResult, stuckResult, advances>>

\* CXXStateTreeFSM::Reset, with t the reading of steady_clock::now().
Reset(t) ==
    /\ treeState' = initialState
    /\ currentState' = initialState
    /\ stateEnteredAt' = t
    /\ pendingState' = ""
    /\ pendingFrameCount' = 0
    /\ transitionHistory' = <<>>
    /\ allCommitted' = <<>>
    /\ streakState' = ""
    /\ streakLen' = 0
    /\ prevCurrent' = currentState
    /\ ticksSinceReset' = 0
    /\ unreachableTicks' = 0
    /\ resetFromPending' = (pendingFrameCount > 0)
    /\ lastOp' = "Reset"
    /\ UNCHANGED <<debounceFrames, fsmResult, stuckResult, advances>>

\* GetTimeInCurrentState at clock reading t: duration_cast to whole
\* milliseconds (truncating).
GetTimeInCurrentState(t) == (t - stateEnteredAt) \div UnitsPerMs

\* IsStuck that already fires when the dwell equals the limit.
IsStuckAtLimit(t) ==
    LET k == FindStateConfig(currentState)
    IN  IF k = 0
        THEN GetTimeInCurrentState(t) >= kUnknownMaxDurationS * kMsPerSecond
        ELSE GetTimeInCurrentState(t) >= stateConfigs[k].maxDurationS * kMsPerSecond

\* CXXStateTreeFSM::IsStuck at clock reading t.
IsStuck(t) ==
    LET k == FindStateConfig(currentState)
    IN  IF k = 0
        THEN GetTimeInCurrentState(t) > kUnknownMaxDurationS * kMsPerSecond
        ELSE GetTimeInCurrentState(t) > stateConfigs[k].maxDurationS * kMsPerSecond

stratFields == <<huntConfig, stats, lastState, actionIndex, lastActionTime,
                 waitingForShinyCheck, consecutiveStuckCount>>

stratGhosts == <<prevStrat, stayChanged, stuckRun, alertsInStay,
                 resolvedInStay, stratCalls>>

stratVars == <<stratFields, decision, stratOp, tickInput, stratGhosts>>

orchFields == <<orchConfig, running, watchdogStuckCount, connected, pc>>

callVars == <<callName, callArgs, callResult>>

lockVars == <<mutexOwner, threadAt, lastAccess>>

stepVars == <<emitted, lastEmit, stay>>

roiVars == <<roiCurrentState, roiStateEnteredAt, roiPendingState,
             roiPendingFrameCount, roiHistory, roiResult, roiOp, roiPrev>>

orchVars == <<orchFields, orchOp, lastEv, tickCalls, runLog, ticks,
              threwInTick, decidedStop, propagated, cleanupThrew, prevOrch,
              stopRequested, exhausted>>

(***************************************************************************)
(* The screen locator.  Corners are kept as <<x0, y0, x2, y2>>, the TL and *)
(* BR corner of the quad, in fixed-point pixels; a camera frame is         *)
(* represented by the candidate quads FindCandidates extracts from it.     *)
(***************************************************************************)
NoScreen == [corners |-> <<>>, confidence |-> 0 - 1, aspectRatio |-> 0, held |-> FALSE]

Has(screen) == screen # NoScreen

EmptyResult == [topScreen |-> NoScreen, bottomScreen |-> NoScreen]

Abs(x) == IF x < 0 THEN 0 - x ELSE x

\* ComputeAspectRatio, in percent: 0 when the height is below one pixel.
ComputeAspectRatio(c) ==
    IF c[4] - c[2] < 1 THEN 0 ELSE ((c[3] - c[1]) * 100) \div (c[4] - c[2])

Quad(x0, y0, x2, y2, conf) ==
    [corners |-> <<x0, y0, x2, y2>>, confidence |-> conf,
     aspectRatio |-> ComputeAspectRatio(<<x0, y0, x2, y2>>), held |-> FALSE]

\* Twice the vertical centre (corners[0].y + corners[2].y) / 2.
CenterY2(c) == c[2] + c[4]

TopQuad == Quad(17, 4, 47, 22, 100)
BottomQuad == Quad(20, 23, 44, 41, 100)
TopQuadShifted == Quad(20, 7, 50, 25, 90)
BottomQuadShifted == Quad(23, 26, 47, 44, 90)
SmallQuad == Quad(2, 2, 12, 8, 40)

\* The frames explored, by name: `empty' is an empty cv::Mat, `black' a
\* frame without any valid quad.
FrameNames == {"empty", "black", "both", "shifted", "three", "top", "bottom"}

FrameOf(name) ==
    CASE name = "empty"   -> [empty |-> TRUE,  candidates |-> <<>>]
      [] name = "black"   -> [empty |-> FALSE, candidates |-> <<>>]
      [] name = "both"    -> [empty |-> FALSE, candidates |-> <<BottomQuad, TopQuad>>]
      [] name = "shifted" -> [empty |-> FALSE,
                              candidates |-> <<TopQuadShifted, BottomQuadShifted>>]
      [] name = "three"   -> [empty |-> FALSE,
                              candidates |-> <<SmallQuad, TopQuad, BottomQuad>>]
      [] name = "top"     -> [empty |-> FALSE, candidates |-> <<TopQuad>>]
      [] name = "bottom"  -> [empty |-> FALSE, candidates |-> <<BottomQuad>>]

\* ClassifyCandidates, more than two candidates: the two of highest
\* confidence.
Top2ByConfidence(cands) ==
    LET idx == 1..Len(cands)
        i == CHOOSE a \in idx : \A b \in idx : cands[b].confidence <= cands[a].confidence
        j == CHOOSE a \in idx \ {i} :
                \A b \in idx \ {i} : cands[b].confidence <= cands[a].confidence
    IN  <<cands[i], cands[j]>>

\* ClassifyCandidates: the sort by vertical centre, on two candidates.
SortByCenterY(pair) ==
    IF CenterY2(pair[2].corners) < CenterY2(pair[1].corners)
    THEN <<pair[2], pair[1]>>
    ELSE pair

\* ClassifyCandidates; split is the remembered split line (times 4).
ClassifyCandidates(cands, split) ==
    IF Len(cands) = 0 THEN EmptyResult
    ELSE IF Len(cands) >= 2
    THEN LET two == IF Len(cands) > 2 THEN Top2ByConfidence(cands) ELSE cands
             sorted == SortByCenterY(two)
         IN  [topScreen |-> sorted[1], bottomScreen |-> sorted[2]]
    ELSE LET c == cands[1]
             topDiff == Abs(c.aspectRatio - kTopAspect)
             botDiff == Abs(c.aspectRatio - kBottomAspect)
             aspectScore == IF topDiff < botDiff THEN 1
                            ELSE IF botDiff < topDiff THEN 0 - 1 ELSE 0
             positionScore == IF split > 0
                              THEN IF 2 * CenterY2(c.corners) < split THEN 2 ELSE 0 - 2
                              ELSE 0
         IN  IF aspectScore + positionScore >= 0
             THEN [topScreen |-> c, bottomScreen |-> NoScreen]
             ELSE [topScreen |-> NoScreen, bottomScreen |-> c]

\* ScreenDetector::DetectOnce.
DetectOnce(frame, split) ==
    IF frame.empty THEN EmptyResult
    ELSE ClassifyCandidates(frame.candidates, split)

\* One coordinate of the EMA, alpha = 2 / (window + 1) clamped to [0, 1].
Ema(new, old, window) ==
    IF window < 1 THEN new
    ELSE (2 * new + (window - 1) * old) \div (window + 1)

\* SmoothSingleScreen that holds a missed screen without any limit.
HoldExpiredNever(framesSince, window) == FALSE

\* SmoothSingleScreen: framesSinceDetection > config.smoothingWindowSize.
HoldExpired(framesSince, window) == framesSince > window

\* ScreenDetector::SmoothSingleScreen: the new values of the three
\* in/out arguments.
SmoothSingleScreen(screen, smoothed, framesSince, window) ==
    IF Has(screen)
    THEN LET sm == IF smoothed # <<>>
                   THEN [i \in 1..4 |-> Ema(screen.corners[i], smoothed[i], window)]
                   ELSE screen.corners
         IN  [screen |-> [screen EXCEPT !.corners = sm],
              smoothed |-> sm, framesSince |-> 0]
    ELSE IF HoldExpired(framesSince + 1, window)
    THEN [screen |-> NoScreen, smoothed |-> <<>>, framesSince |-> framesSince + 1]
    ELSE IF smoothed # <<>>
    THEN [screen |-> [corners |-> smoothed, confidence |-> 0,
                      aspectRatio |-> ComputeAspectRatio(smoothed), held |-> TRUE],
          smoothed |-> smoothed, framesSince |-> framesSince + 1]
    ELSE [screen |-> NoScreen, smoothed |-> smoothed, framesSince |-> framesSince + 1]

\* The rolling window after push_back and the pop_front past the size.
PushWindow(window, b) ==
    LET w == Append(window, b)
    IN  IF Len(w) > kCalibrationWindowSize THEN Tail(w) ELSE w

Successes(window) == Cardinality({ i \in 1..Len(window) : window[i] })

\* Detect that re-runs detection although the calibration is locked.
ReturnsLockedNever(isCalibrated) == FALSE

\* Detect line 34: the locked result is returned without detecting.
ReturnsLocked(isCalibrated) == isCalibrated

\* ScreenDetector::Detect on the frame of this name.
Detect(name) ==
    LET frame == FrameOf(name)
        raw == DetectOnce(frame, splitPointY)
        rawBoth == Has(raw.topScreen) /\ Has(raw.bottomScreen)
        t == SmoothSingleScreen(raw.topScreen, smoothedTopCorners,
                                framesSinceTopDetection, smoothingWindowSize)
        b == SmoothSingleScreen(raw.bottomScreen, smoothedBottomCorners,
                                framesSinceBottomDetection, smoothingWindowSize)
        result == [topScreen |-> t.screen, bottomScreen |-> b.screen]
        bothDetected == Has(result.topScreen) /\ Has(result.bottomScreen)
        window == PushWindow(calibrationWindow, bothDetected)
        lock == /\ Len(window) >= calibrationFrames
                /\ Successes(window) * kSuccessDen >= kSuccessNum * Len(window)
                /\ bothDetected
    IN  /\ (IF ReturnsLocked(calibrated)
            THEN /\ detectResult' = calibratedResult
                 /\ UNCHANGED <<screenFields, realWindow, missRun, lastSmoothed>>
            ELSE /\ smoothedTopCorners' = t.smoothed
                 /\ framesSinceTopDetection' = t.framesSince
                 /\ smoothedBottomCorners' = b.smoothed
                 /\ framesSinceBottomDetection' = b.framesSince
                 /\ splitPointY' = (IF bothDetected
                                    THEN CenterY2(result.topScreen.corners)
                                         + CenterY2(result.bottomScreen.corners)
                                    ELSE splitPointY)
                 /\ calibrationWindow' = window
                 /\ calibrated' = (calibrated \/ lock)
                 /\ calibratedResult' = (IF lock THEN result ELSE calibratedResult)
                 /\ detectResult' = result
                 /\ realWindow' = PushWindow(realWindow, rawBoth)
                 /\ missRun' =
                       [top |-> IF Has(raw.topScreen) THEN 0
                                ELSE IF missRun.top < 0 THEN missRun.top
                                ELSE missRun.top + 1,
                        bottom |-> IF Has(raw.bottomScreen) THEN 0
                                   ELSE IF missRun.bottom < 0 THEN missRun.bottom
                                   ELSE missRun.bottom + 1]
                 /\ lastSmoothed' =
                       [top |-> IF Has(raw.topScreen) THEN t.smoothed
                                ELSE lastSmoothed.top,
                        bottom |-> IF Has(raw.bottomScreen) THEN b.smoothed
                                   ELSE lastSmoothed.bottom]
                 /\ UNCHANGED <<calibrationFrames, smoothingWindowSize>>)
        /\ sdLastOp' = "Detect"
        /\ lastFrame' = name
        /\ calibratedBefore' = calibrated
        /\ bothRun' = (IF bothRun >= 0 /\ rawBoth
                       THEN Min(bothRun + 1, kCalibrationWindowSize + CalibExtra + 1)
                       ELSE 0 - 1)
        /\ detectCalls' = detectCalls + 1
        /\ misses' = (IF rawBoth THEN misses ELSE misses + 1)

\* ScreenDetector::Reset.
ResetDetector ==
    /\ smoothedTopCorners' = <<>>
    /\ smoothedBottomCorners' = <<>>
    /\ framesSinceTopDetection' = 0
    /\ framesSinceBottomDetection' = 0
    /\ splitPointY' = 0 - 4
    /\ calibrated' = FALSE
    /\ calibrationWindow' = <<>>
    /\ calibratedResult' = EmptyResult
    /\ realWindow' = <<>>
    /\ bothRun' = 0
    /\ missRun' = [top |-> 0 - 1, bottom |-> 0 - 1]
    /\ lastSmoothed' = [top |-> <<>>, bottom |-> <<>>]
    /\ sdLastOp' = "Reset"
    /\ calibratedBefore' = calibrated
    /\ UNCHANGED <<calibrationFrames, smoothingWindowSize, detectResult,
                   lastFrame, detectCalls, misses>>

\* A ScreenDetector as constructed from its config.
InitScreen(calibs, windows) ==
    /\ calibrationFrames \in calibs
    /\ smoothingWindowSize \in windows
    /\ calibrated = FALSE
    /\ calibratedResult = EmptyResult
    /\ calibrationWindow = <<>>
    /\ smoothedTopCorners = <<>>
    /\ smoothedBottomCorners = <<>>
    /\ framesSinceTopDetection = 0
    /\ framesSinceBottomDetection = 0
    /\ splitPointY = 0 - 4
    /\ detectResult = EmptyResult
    /\ sdLastOp = "Build"
    /\ lastFrame = "empty"
    /\ calibratedBefore = FALSE
    /\ realWindow = <<>>
    /\ bothRun = 0
    /\ detectCalls = 0
    /\ misses = 0
    /\ missRun = [top |-> 0 - 1, bottom |-> 0 - 1]
    /\ lastSmoothed = [top |-> <<>>, bottom |-> <<>>]

fsmFields == <<debounceFrames, currentState, stateEnteredAt, pendingState,
               pendingFrameCount, transitionHistory, treeState>>

fsmGhosts == <<allCommitted, streakState, streakLen, prevCurrent,
               ticksSinceReset, unreachableTicks, resetFromPending>>

(***************************************************************************)
(* Construction: the constructor ends with Reset().                        *)
(***************************************************************************)
InitFSM(frames) ==
    /\ debounceFrames \in frames
    /\ currentState = initialState
    /\ treeState = initialState
    /\ stateEnteredAt = 0
    /\ pendingState = ""
    /\ pendingFrameCount = 0
    /\ transitionHistory = <<>>
    /\ fsmResult = NoTransition
    /\ stuckResult = FALSE
    /\ lastOp = "Build"
    /\ now = 0
    /\ allCommitted = <<>>
    /\ streakState = ""
    /\ streakLen = 0
    /\ prevCurrent = initialState
    /\ ticksSinceReset = 0
    /\ unreachableTicks = 0
    /\ resetFromPending = FALSE
    /\ advances = 0

(***************************************************************************)
(* The decision strategy (SoftResetStrategy).  Times given to Tick are in  *)
(* milliseconds; steady_clock readings are in clock units.                 *)
(***************************************************************************)
StratStates == {"check", "play", "idle"}

Verdicts == {"none", "Shiny", "NotShiny", "Uncertain"}

\* Core::InputAction with its defaults.
InputAction(buttons, holdMs, waitAfterMs, repeat, waitMs) ==
    [buttons |-> buttons, holdMs |-> holdMs, waitAfterMs |-> waitAfterMs,
     repeat |-> repeat, waitMs |-> waitMs]

\* config.actions: the action list of each state (<<>> = no entry).
ConfigActions(state) ==
    CASE state = "check" -> << InputAction(<<"A">>, 1, 0, FALSE, 0) >>
      [] state = "play"  -> << InputAction(<<>>, 120, 200, FALSE, 2),
                               InputAction(<<"B">>, 1, 1, FALSE, 0),
                               InputAction(<<"A", "START">>, 2, 1, TRUE, 0) >>
      [] state = "combo" -> << InputAction(<<"X">>, 1, 2, FALSE, 0),
                               InputAction(<<"Y">>, 1, 1, FALSE, 0) >>
      [] state = "stall" -> << InputAction(<<>>, 120, 200, FALSE, 0),
                               InputAction(<<"SELECT">>, 1, 1, FALSE, 0) >>
      [] OTHER           -> <<>>

\* SoftResetStrategy::ButtonNameToBit.
ButtonNameToBit(name) ==
    CASE name = "A"       -> 1
      [] name = "B"       -> 2
      [] name = "SELECT"  -> 4
      [] name = "START"   -> 8
      [] name = "D_RIGHT" -> 16
      [] name = "D_LEFT"  -> 32
      [] name = "D_UP"    -> 64
      [] name = "D_DOWN"  -> 128
      [] name = "R"       -> 256
      [] name = "L"       -> 512
      [] name = "X"       -> 1024
      [] name = "Y"       -> 2048
      [] OTHER            -> 0

RECURSIVE SumOf(_)
SumOf(S) == IF S = {} THEN 0
            ELSE LET x == CHOOSE y \in S : TRUE IN x + SumOf(S \ {x})

\* SoftResetStrategy::BuildInputCommand: the bitwise OR of the buttons'
\* bits, every bit being a distinct power of two.
BuildInputCommand(buttons) ==
    SumOf({ ButtonNameToBit(buttons[i]) : i \in 1..Len(buttons) })

NoCommand == 0

Decision(action, delay, command) ==
    [action |-> action, delay |-> delay, command |-> command]

\* Core::HuntStatistics as Reset leaves it at clock reading t;
\* avgCycleSeconds is kept as the exact quotient num / den.
FreshStats(t) ==
    [encounters |-> 0, shiniesFound |-> 0, huntStarted |-> t,
     lastEncounter |-> 0, avgCycleSeconds |-> [num |-> 0, den |-> 1],
     errors |-> 0, watchdogRecoveries |-> 0]

\* Tick that never waits for the check delay.
InCheckDelayNever(timeInState, delayMs) == FALSE

\* Tick line 30: timeInState < shinyCheckDelayMs.
InCheckDelay(timeInState, delayMs) == timeInState < delayMs

\* A NotShiny verdict that is counted as an anomaly as well.
CountEncounterAndAnomaly(st, t) ==
    [st EXCEPT !.encounters = @ + 1, !.shiniesFound = @ + 1, !.lastEncounter = t]

\* Tick lines 49-56: the statistics after a NotShiny verdict at reading t.
CountEncounter(st, t) ==
    LET n == st.encounters + 1
    IN  [st EXCEPT !.encounters = n,
                   !.avgCycleSeconds =
                       IF n > 1 THEN [num |-> t - st.huntStarted, den |-> n] ELSE @,
                   !.lastEncounter = t]

\* A button step that always advances the step index.
IndexAfterSendAlways(action, idx) == idx + 1

\* Tick lines 119-122: the step index after the button step at idx was sent.
IndexAfterSend(action, idx) == IF action.repeat THEN idx ELSE idx + 1

\* Tick lines 76-135: the normal execution of the state's action list, from
\* step index idx; the decision and the new actionIndex and lastActionTime.
RunActions(cs, timeInState, idx, t) ==
    LET stateActions == ConfigActions(cs)
        n == Len(stateActions)
        waits == /\ idx < n
                 /\ stateActions[idx + 1].waitMs > 0
                 /\ Len(stateActions[idx + 1].buttons) = 0
        idx1 == IF waits /\ timeInState >= stateActions[idx + 1].waitMs
                THEN idx + 1 ELSE idx
        timeSinceLastAction == (t - lastActionTime) \div UnitsPerMs
    IN  IF n = 0
        THEN [decision |-> Decision("Wait", 0, NoCommand),
              actionIndex |-> idx, lastActionTime |-> lastActionTime]
        ELSE IF waits /\ timeInState < stateActions[idx + 1].waitMs
        THEN [decision |-> Decision("Wait", 0, NoCommand),
              actionIndex |-> idx, lastActionTime |-> lastActionTime]
        ELSE IF /\ idx1 < n
                /\ Len(stateActions[idx1 + 1].buttons) > 0
                /\ timeSinceLastAction >= stateActions[idx1 + 1].waitAfterMs
        THEN [decision |-> Decision("SendInput", stateActions[idx1 + 1].holdMs,
                                    BuildInputCommand(stateActions[idx1 + 1].buttons)),
              actionIndex |-> IndexAfterSend(stateActions[idx1 + 1], idx1),
              lastActionTime |-> t]
        ELSE [decision |-> Decision("Wait", 0, NoCommand),
              actionIndex |-> idx1, lastActionTime |-> lastActionTime]

\* SoftResetStrategy::Tick(currentState, timeInState, shinyResult) at clock
\* reading t: the decision returned and the new values of the fields.
TickOutcome(cs, timeInState, verdict, t) ==
    LET changed == cs # lastState
        idx0 == IF changed THEN 0 ELSE actionIndex
        waiting0 == IF changed THEN FALSE ELSE waitingForShinyCheck
        stuck0 == IF changed THEN 0 ELSE consecutiveStuckCount
        base == [decision |-> Decision("Wait", 0, NoCommand), stats |-> stats,
                 actionIndex |-> idx0, lastActionTime |-> lastActionTime,
                 waitingForShinyCheck |-> waiting0,
                 consecutiveStuckCount |-> stuck0]
        normal(st, waiting) ==
            LET r == RunActions(cs, timeInState, idx0, t)
            IN  [base EXCEPT !.decision = r.decision, !.stats = st,
                             !.actionIndex = r.actionIndex,
                             !.lastActionTime = r.lastActionTime,
                             !.waitingForShinyCheck = waiting]
    IN  IF cs # huntConfig.shinyCheckState
        THEN normal(stats, waiting0)
        ELSE IF InCheckDelay(timeInState, huntConfig.shinyCheckDelayMs)
        THEN base
        ELSE IF verdict = "Shiny"
        THEN [base EXCEPT !.decision = Decision("AlertShiny", 0, NoCommand),
                          !.stats.shiniesFound = @ + 1]
        ELSE IF verdict = "NotShiny"
        THEN normal(CountEncounter(stats, t), FALSE)
        ELSE [base EXCEPT !.decision = Decision("CheckShiny", 0, NoCommand)]

\* SoftResetStrategy::Tick as an operation on the strategy, the count of
\* the calls made apart.
StratTickBody(cs, timeInState, verdict, t) ==
    LET out == TickOutcome(cs, timeInState, verdict, t)
        changed == cs # tickInput.state
        resolves == /\ cs = huntConfig.shinyCheckState
                    /\ timeInState >= huntConfig.shinyCheckDelayMs
                    /\ verdict \in {"Shiny", "NotShiny"}
        before == IF changed THEN 0 ELSE resolvedInStay
    IN  /\ lastState' = cs
        /\ stats' = out.stats
        /\ actionIndex' = out.actionIndex
        /\ lastActionTime' = out.lastActionTime
        /\ waitingForShinyCheck' = out.waitingForShinyCheck
        /\ consecutiveStuckCount' = out.consecutiveStuckCount
        /\ decision' = out.decision
        /\ stratOp' = "Tick"
        /\ tickInput' = [state |-> cs, timeInState |-> timeInState, verdict |-> verdict]
        /\ prevStrat' = [stats |-> stats, actionIndex |-> actionIndex,
                         consecutiveStuckCount |-> consecutiveStuckCount]
        /\ stayChanged' = changed
        /\ stuckRun' = (IF changed THEN 0 ELSE stuckRun)
        /\ alertsInStay' = (IF changed THEN 0 ELSE alertsInStay)
                           + (IF out.decision.action = "AlertShiny" THEN 1 ELSE 0)
        /\ resolvedInStay' = (IF before > 0 THEN 2 ELSE IF resolves THEN 1 ELSE 0)
        /\ UNCHANGED huntConfig

\* SoftResetStrategy::Tick as an operation on the strategy.
StratTick(cs, timeInState, verdict, t) ==
    /\ StratTickBody(cs, timeInState, verdict, t)
    /\ stratCalls' = stratCalls + 1

\* OnStuck that gives up one call early.
RetriesExceededEarly(count, maxRetries) == count >= maxRetries

\* OnStuck line 145: consecutiveStuckCount > config.onStuck.maxRetries.
RetriesExceeded(count, maxRetries) == count > maxRetries

\* SoftResetStrategy::OnStuck.
StratOnStuck ==
    /\ stats' = [stats EXCEPT !.watchdogRecoveries = @ + 1]
    /\ consecutiveStuckCount' = consecutiveStuckCount + 1
    /\ decision' = (IF RetriesExceeded(consecutiveStuckCount + 1, huntConfig.maxRetries)
                    THEN Decision("Abort", 0, NoCommand)
                    ELSE Decision("SendInput", kStuckHoldMs,
                                  BuildInputCommand(<<"L", "R", "START">>)))
    /\ stratOp' = "OnStuck"
    /\ prevStrat' = [stats |-> stats, actionIndex |-> actionIndex,
                     consecutiveStuckCount |-> consecutiveStuckCount]
    /\ stuckRun' = stuckRun + 1
    /\ stratCalls' = stratCalls + 1
    /\ UNCHANGED <<huntConfig, lastState, actionIndex, lastActionTime,
                   waitingForShinyCheck, tickInput, stayChanged, alertsInStay,
                   resolvedInStay>>

NoTick == [state |-> "", timeInState |-> 0, verdict |-> "none"]

\* SoftResetStrategy::Reset at clock reading t.
StratReset(t) ==
    /\ stats' = FreshStats(t)
    /\ lastState' = ""
    /\ actionIndex' = 0
    /\ lastActionTime' = t
    /\ waitingForShinyCheck' = FALSE
    /\ consecutiveStuckCount' = 0
    /\ stratOp' = "Reset"
    /\ tickInput' = NoTick
    /\ prevStrat' = [stats |-> stats, actionIndex |-> actionIndex,
                     consecutiveStuckCount |-> consecutiveStuckCount]
    /\ stayChanged' = FALSE
    /\ stuckRun' = 0
    /\ alertsInStay' = 0
    /\ resolvedInStay' = 0
    /\ UNCHANGED <<huntConfig, decision>>

\* A SoftResetStrategy as constructed (the constructor ends with Reset()).
InitStratWith(delays, retries, recoveries) ==
    /\ huntConfig \in [shinyCheckState : {"check"}, shinyCheckDelayMs : delays,
                       maxRetries : retries]
    /\ \E n \in recoveries : stats = [FreshStats(0) EXCEPT !.watchdogRecoveries = n]
    /\ lastState = ""
    /\ actionIndex = 0
    /\ lastActionTime = 0
    /\ waitingForShinyCheck = FALSE
    /\ consecutiveStuckCount = 0
    /\ decision = Decision("Wait", 0, NoCommand)
    /\ stratOp = "Build"
    /\ tickInput = NoTick
    /\ prevStrat = [stats |-> stats, actionIndex |-> 0,
                    consecutiveStuckCount |-> 0]
    /\ stayChanged = FALSE
    /\ stuckRun = 0
    /\ alertsInStay = 0
    /\ resolvedInStay = 0
    /\ stratCalls = 0

InitStrat(delays, retries) == InitStratWith(delays, retries, {0})

(***************************************************************************)
(* The orchestrator.  Its components are reached through interfaces; what  *)
(* each call of a tick returns or throws is given by a tick event.  The    *)
(* accessors (IsConnected, Stats, GetCurrentState, GetTimeInCurrentState)  *)
(* return without throwing; the transport stays connected once connected.  *)
(***************************************************************************)
NoEvent ==
    [grab |-> "none", rectify |-> "ok", update |-> "ok", roi |-> "absent",
     checkState |-> FALSE, tick |-> "Wait", delay |-> 0, send |-> "ok",
     release |-> "ok", stuck |-> "no", kind |-> "std::exception"]

HuntActions == {"Wait", "SendInput", "CheckShiny", "AlertShiny", "Reset", "Abort"}

\* What the calls of one MainLoopTick may return or throw.
TickEvents ==
    LET framed == [NoEvent EXCEPT !.grab = "frame"]
        decided == { [framed EXCEPT !.roi = r, !.checkState = c, !.tick = a,
                                    !.stuck = s] :
                        r \in {"absent", "found"},
                        c \in BOOLEAN,
                        a \in HuntActions \ {"SendInput"},
                        s \in {"no", "yes", "throw"} }
        sending == { [framed EXCEPT !.tick = "SendInput", !.delay = d, !.send = x,
                                    !.release = y, !.stuck = s] :
                        d \in {0, 1}, x \in {"ok", "throw"}, y \in {"ok", "throw"},
                        s \in {"no", "yes"} }
        failing == { [NoEvent EXCEPT !.grab = "throw"],
                     [framed EXCEPT !.rectify = "none"],
                     [framed EXCEPT !.rectify = "throw"],
                     [framed EXCEPT !.update = "throw"],
                     [framed EXCEPT !.roi = "throw"],
                     [framed EXCEPT !.tick = "throw"] }
        all == {NoEvent} \cup decided \cup sending \cup failing
    IN  all \cup { [e EXCEPT !.kind = "other"] : e \in failing }

\* Run lines 75-84: both kinds of exception are caught.
CaughtStdOnly(kind) == kind = "std::exception"

Caught(kind) == kind \in {"std::exception", "other"}

\* An orchestrator that sends in dry-run mode as well.
InputEnabledInDryRun(dry, hasIn, conn) == hasIn /\ conn

\* ExecuteDecision line 200: !config.dryRun && input && input->IsConnected().
InputEnabled(dry, hasIn, conn) == ~dry /\ hasIn /\ conn

\* An orchestrator that releases after every Send.
HoldsButtonsAlways(delay) == TRUE

\* ExecuteDecision line 203: decision.delay.count() > 0.
HoldsButtons(delay) == delay > 0

\* ExecuteDecision that goes on after Alert and Abort.
ExecuteDecisionNoStop(ev, dry, hasIn, conn) ==
    IF ev.tick = "SendInput" /\ ~dry /\ hasIn /\ conn
    THEN [calls |-> <<"Send">>, threw |-> ev.send = "throw", stop |-> FALSE]
    ELSE [calls |-> <<>>, threw |-> FALSE, stop |-> FALSE]

\* ExecuteDecision: the calls made, whether one threw, whether Stop() ran.
ExecuteDecision(ev, dry, hasIn, conn) ==
    IF ev.tick = "SendInput"
    THEN IF InputEnabled(dry, hasIn, conn)
         THEN IF ev.send = "throw"
              THEN [calls |-> <<"Send">>, threw |-> TRUE, stop |-> FALSE]
              ELSE IF HoldsButtons(ev.delay)
              THEN [calls |-> <<"Send", "Sleep", "ReleaseAll">>,
                    threw |-> ev.release = "throw", stop |-> FALSE]
              ELSE [calls |-> <<"Send">>, threw |-> FALSE, stop |-> FALSE]
         ELSE [calls |-> <<>>, threw |-> FALSE, stop |-> FALSE]
    ELSE IF ev.tick \in {"AlertShiny", "Abort"}
    THEN [calls |-> <<>>, threw |-> FALSE, stop |-> TRUE]
    ELSE [calls |-> <<>>, threw |-> FALSE, stop |-> FALSE]

\* A watchdog that asks the strategy for a recovery input and goes on.
HandleWatchdogRecovering(stuck) ==
    IF stuck = "throw"
    THEN [calls |-> <<"IsStuck">>, threw |-> TRUE, stop |-> FALSE, inc |-> 0]
    ELSE IF stuck = "yes"
    THEN [calls |-> <<"IsStuck", "OnStuck", "Send">>, threw |-> FALSE,
          stop |-> FALSE, inc |-> 1]
    ELSE [calls |-> <<"IsStuck">>, threw |-> FALSE, stop |-> FALSE, inc |-> 0]

\* Orchestrator::HandleWatchdog.
HandleWatchdog(stuck) ==
    IF stuck = "throw"
    THEN [calls |-> <<"IsStuck">>, threw |-> TRUE, stop |-> FALSE, inc |-> 0]
    ELSE IF stuck = "yes"
    THEN [calls |-> <<"IsStuck">>, threw |-> FALSE, stop |-> TRUE, inc |-> 1]
    ELSE [calls |-> <<"IsStuck">>, threw |-> FALSE, stop |-> FALSE, inc |-> 0]

\* A tick that goes on without rectified screens.
UnrectifiedNever(ev) == FALSE

\* MainLoopTick line 137: ProcessDualScreen returned no value.
Unrectified(ev) == ev.rectify = "none"

\* Orchestrator::MainLoopTick on the event ev: the calls made on the
\* components, in order, whether the tick ended by an exception, whether it
\* called Stop(), and the increment of watchdogStuckCount.
MainLoopTick(ev, dry, hasIn, conn, hasScreen, hasDet) ==
    LET result(calls, threw, stop, inc) ==
            [calls |-> calls, threw |-> threw, stop |-> stop, inc |-> inc]
        located == IF hasScreen THEN <<"Grab", "ApplyTo", "ProcessDualScreen">>
                   ELSE <<"Grab", "ProcessDualScreen">>
        updated == Append(located, "Update")
        classified == IF hasDet /\ ev.roi # "absent"
                      THEN Append(updated, "Detect") ELSE updated
        ticked == Append(classified, "Tick")
        ex == ExecuteDecision(ev, dry, hasIn, conn)
        wd == HandleWatchdog(ev.stuck)
    IN  IF ev.grab = "none" THEN result(<<"Grab">>, FALSE, FALSE, 0)
        ELSE IF ev.grab = "throw" THEN result(<<"Grab">>, TRUE, FALSE, 0)
        ELSE IF Unrectified(ev) THEN result(located, FALSE, FALSE, 0)
        ELSE IF ev.rectify = "throw" THEN result(located, TRUE, FALSE, 0)
        ELSE IF ev.update = "throw" THEN result(updated, TRUE, FALSE, 0)
        ELSE IF hasDet /\ ev.roi = "throw" THEN result(classified, TRUE, FALSE, 0)
        ELSE IF ev.tick = "throw" THEN result(ticked, TRUE, FALSE, 0)
        ELSE IF ex.threw THEN result(ticked \o ex.calls, TRUE, ex.stop, 0)
        ELSE result(ticked \o ex.calls \o wd.calls, wd.threw,
                    ex.stop \/ wd.stop, wd.inc)

\* Orchestrator::Stats: the strategy's statistics with the watchdog count
\* added to its recovery count.
OrchStats ==
    [stats EXCEPT !.watchdogRecoveries = @ + watchdogStuckCount]

TransportCalls(calls) ==
    SelectSeq(calls, LAMBDA c : c \in {"Send", "ReleaseAll"})

\* Run called: execution stands before line 31.
CallRun ==
    /\ pc = "idle"
    /\ pc' = "entered"
    /\ orchOp' = "CallRun"
    /\ UNCHANGED <<stopRequested, exhausted, orchConfig, running, connected, watchdogStuckCount, lastEv,
                   tickCalls, runLog, ticks, threwInTick, decidedStop,
                   propagated, cleanupThrew, prevOrch>>

\* Run lines 31-57: running = true, the source is opened, the transport
\* connected when it is not.
RunStart(opens, connects) ==
    /\ pc = "entered"
    /\ running' = TRUE
    /\ pc' = (IF opens THEN "loop" ELSE "returned")
    /\ connected' = (IF opens /\ orchConfig.hasInput /\ ~connected
                     THEN connects ELSE connected)
    /\ orchOp' = "RunStart"
    /\ prevOrch' = [running |-> running, watchdogStuckCount |-> watchdogStuckCount]
    /\ UNCHANGED <<stopRequested, exhausted, orchConfig, watchdogStuckCount, lastEv, tickCalls, runLog,
                   ticks, threwInTick, decidedStop, propagated, cleanupThrew>>

\* Run lines 61-84: one iteration of while (running), with the catch
\* blocks around the loop.
LoopTickBody(ev) ==
    LET out == MainLoopTick(ev, orchConfig.dryRun, orchConfig.hasInput, connected,
                            orchConfig.hasScreenDetector, orchConfig.hasDetector)
        decided == /\ "Tick" \in Range(out.calls)
                   /\ ev.tick \in {"AlertShiny", "Abort"}
    IN  /\ pc = "loop"
        /\ running
        /\ watchdogStuckCount' = watchdogStuckCount + out.inc
        /\ running' = (IF out.threw THEN (IF Caught(ev.kind) THEN FALSE ELSE ~out.stop)
                       ELSE ~out.stop)
        /\ pc' = (IF out.threw
                  THEN (IF Caught(ev.kind) THEN "cleanup" ELSE "returned")
                  ELSE "loop")
        /\ propagated' = (out.threw /\ ~Caught(ev.kind))
        /\ tickCalls' = out.calls
        /\ runLog' = runLog \o TransportCalls(out.calls)
        /\ lastEv' = ev
        /\ threwInTick' = out.threw
        /\ decidedStop' = decided
        /\ orchOp' = "Tick"
        /\ prevOrch' = [running |-> running, watchdogStuckCount |-> watchdogStuckCount]
        /\ UNCHANGED <<stopRequested, exhausted, orchConfig, connected, cleanupThrew>>

\* The same, counting the ticks started.
LoopTick(ev) ==
    /\ LoopTickBody(ev)
    /\ ticks' = ticks + 1

\* Run line 61: while (running) found false.
LoopExit ==
    /\ pc = "loop"
    /\ ~running
    /\ pc' = "cleanup"
    /\ orchOp' = "LoopExit"
    /\ UNCHANGED <<stopRequested, exhausted, orchConfig, running, connected, watchdogStuckCount, lastEv,
                   tickCalls, runLog, ticks, threwInTick, decidedStop,
                   propagated, cleanupThrew, prevOrch>>

\* A cleanup that releases nothing.
CleanupReleasesNever(hasIn, conn) == FALSE

\* Run line 87: input && input->IsConnected().
CleanupReleases(hasIn, conn) == hasIn /\ conn

\* Run lines 86-104: the cleanup; an exception of ReleaseAll is caught.
Cleanup(releaseThrows) ==
    /\ pc = "cleanup"
    /\ runLog' = (IF CleanupReleases(orchConfig.hasInput, connected)
                  THEN Append(runLog, "ReleaseAll") ELSE runLog)
    /\ cleanupThrew' = (CleanupReleases(orchConfig.hasInput, connected) /\ releaseThrows)
    /\ pc' = "returned"
    /\ orchOp' = "Cleanup"
    /\ UNCHANGED <<stopRequested, exhausted, orchConfig, running, connected, watchdogStuckCount, lastEv,
                   tickCalls, ticks, threwInTick, decidedStop, propagated,
                   prevOrch>>

\* Orchestrator::Stop, from another thread or a signal handler.
ExternalStop ==
    /\ pc \in {"entered", "loop"}
    /\ running' = FALSE
    /\ stopRequested' = TRUE
    /\ orchOp' = "Stop"
    /\ prevOrch' = [running |-> running, watchdogStuckCount |-> watchdogStuckCount]
    /\ UNCHANGED <<exhausted, orchConfig, pc, connected, watchdogStuckCount, lastEv,
                   tickCalls, runLog, ticks, threwInTick, decidedStop, propagated,
                   cleanupThrew>>

Threads == {1, 2}

IdleThread == [op |-> "", program |-> 0, step |-> 0]

NoAccess == [thread |-> 0, field |-> "", kind |-> "none", held |-> FALSE]

\* No thread is inside an operation of the screen locator.
NoThread ==
    /\ mutexOwner = 0
    /\ threadAt = [t \in Threads |-> IdleThread]
    /\ lastAccess = NoAccess

\* No button step has been sent yet.
NoEmit == [time |-> 0 - 1, waitAfterMs |-> 0]

\* The strategy has not been ticked.
NoSteps ==
    /\ emitted = <<>>
    /\ lastEmit = NoEmit
    /\ stay = [state |-> "", enteredAt |-> 0]

\* profile.initialState of the single-ROI tracker.
roiInitialState == "A"

\* The single-ROI tracker built from a profile: the constructor ends with
\* Reset().
NoSingleRoi ==
    /\ roiCurrentState = roiInitialState
    /\ roiStateEnteredAt = 0
    /\ roiPendingState = ""
    /\ roiPendingFrameCount = 0
    /\ roiHistory = <<>>
    /\ roiResult = NoTransition
    /\ roiOp = "Build"
    /\ roiPrev = [currentState |-> roiInitialState, pendingState |-> "",
                  history |-> <<>>]

\* No function has been called.
NoCall ==
    /\ callName = ""
    /\ callArgs = <<>>
    /\ callResult = <<>>

FullConfig ==
    [dryRun |-> FALSE, hasInput |-> TRUE, hasScreenDetector |-> TRUE, hasDetector |-> TRUE]

\* The component sets an Orchestrator is constructed with.
OrchConfigs ==
    { FullConfig,
      [dryRun |-> TRUE, hasInput |-> TRUE, hasScreenDetector |-> TRUE, hasDetector |-> TRUE],
      [dryRun |-> FALSE, hasInput |-> TRUE, hasScreenDetector |-> FALSE, hasDetector |-> FALSE],
      [dryRun |-> FALSE, hasInput |-> FALSE, hasScreenDetector |-> FALSE, hasDetector |-> FALSE] }

\* An Orchestrator as constructed.
InitOrch(configs, connections) ==
    /\ orchConfig \in configs
    /\ running = FALSE
    /\ pc = "idle"
    /\ connected \in (IF orchConfig.hasInput THEN connections ELSE {FALSE})
    /\ watchdogStuckCount = 0
    /\ orchOp = "Build"
    /\ lastEv = NoEvent
    /\ tickCalls = <<>>
    /\ runLog = <<>>
    /\ ticks = 0
    /\ threwInTick = FALSE
    /\ decidedStop = FALSE
    /\ propagated = FALSE
    /\ cleanupThrew = FALSE
    /\ prevOrch = [running |-> FALSE, watchdogStuckCount |-> 0]
    /\ stopRequested = FALSE
    /\ exhausted = FALSE

(***************************************************************************)
(* Spec: the tracker driven by arbitrary frames and Reset calls.           *)
(***************************************************************************)
Init == InitFSM(1..MaxDebounce) /\ InitScreen({1}, {1}) /\ InitStrat({0}, {0})
    /\ InitOrch({FullConfig}, {FALSE}) /\ NoCall /\ NoThread /\ NoSteps /\ NoSingleRoi

Tick ==
    /\ \E f \in Frames : Update(f, now)
    /\ Len(allCommitted') <= MaxCommits
    /\ UNCHANGED <<now, screenVars, stratVars, orchVars, callVars, lockVars, stepVars, roiVars>>

DoReset ==
    /\ Reset(now)
    /\ UNCHANGED <<now, screenVars, stratVars, orchVars, callVars, lockVars, stepVars, roiVars>>

Next == Tick \/ DoReset

vars == <<fsmVars, screenVars, stratVars, orchVars, callVars, lockVars, stepVars, roiVars>>

Spec == Init /\ [][Next]_vars

(***************************************************************************)
(* SpecStuck: the tracker with the clock advancing between calls, and the  *)
(* watchdog query IsStuck.                                                 *)
(***************************************************************************)
StuckFrames ==
    { f \in Frames :
        /\ f.bottom["C"] = 90
        /\ \A s \in StateIds : f.top[s] \in {0, 90}
        /\ Cardinality({ s \in StateIds : f.top[s] = 90 }) <= 1 }

ClockSteps == {1, UnitsPerMs * kMsPerSecond}

InitStuck == InitFSM({1}) /\ InitScreen({1}, {1}) /\ InitStrat({0}, {0})
    /\ InitOrch({FullConfig}, {FALSE}) /\ NoCall /\ NoThread /\ NoSteps /\ NoSingleRoi

TickAt ==
    /\ \E f \in StuckFrames : Update(f, now)
    /\ Len(allCommitted') <= MaxStuckCommits
    /\ UNCHANGED <<now, screenVars, stratVars, orchVars, callVars, lockVars, stepVars, roiVars>>

Advance ==
    /\ advances < MaxAdvances
    /\ \E d \in ClockSteps : now' = now + d
    /\ advances' = advances + 1
    /\ lastOp' = "Advance"
    /\ UNCHANGED <<fsmFields, fsmGhosts, fsmResult, stuckResult, screenVars, stratVars, orchVars, callVars, lockVars, stepVars, roiVars>>

CheckStuck ==
    /\ stuckResult' = IsStuck(now)
    /\ lastOp' = "IsStuck"
    /\ UNCHANGED <<fsmFields, fsmGhosts, fsmResult, now, advances, screenVars, stratVars, orchVars, callVars, lockVars, stepVars, roiVars>>

ResetAt ==
    /\ Reset(now)
    /\ UNCHANGED <<now, screenVars, stratVars, orchVars, callVars, lockVars, stepVars, roiVars>>

NextStuck == TickAt \/ Advance \/ CheckStuck \/ ResetAt

SpecStuck == InitStuck /\ [][NextStuck]_vars

(***************************************************************************)
(* SpecHistory: a feed that alternates between the states A and B, every   *)
(* frame showing the other one, one clock unit apart, long enough to       *)
(* overflow the history twice.                                             *)
(***************************************************************************)
HistFrames ==
    { f \in Frames :
        /\ f.bottom["C"] = 90
        /\ Cardinality({ s \in StateIds : f.top[s] = 90 }) = 1
        /\ \A s \in StateIds : f.top[s] \in {0, 90}
        /\ f.top["C"] = 0
        /\ f.top["D"] = 0 }

InitHistory == InitFSM({1}) /\ InitScreen({1}, {1}) /\ InitStrat({0}, {0})
    /\ InitOrch({FullConfig}, {FALSE}) /\ NoCall /\ NoThread /\ NoSteps /\ NoSingleRoi

TickHist ==
    /\ Len(allCommitted) < kHistoryMax + HistExtra
    /\ \E f \in HistFrames :
          /\ Favoured(f, currentState) \notin {"", currentState}
          /\ Update(f, now + 1)
    /\ now' = now + 1
    /\ UNCHANGED <<screenVars, stratVars, orchVars, callVars, lockVars, stepVars, roiVars>>

ResetHist ==
    /\ now < HistResetWindow
    /\ Reset(now)
    /\ UNCHANGED <<now, screenVars, stratVars, orchVars, callVars, lockVars, stepVars, roiVars>>

NextHistory == TickHist \/ ResetHist

SpecHistory == InitHistory /\ [][NextHistory]_vars

(***************************************************************************)
(* SpecScreen: the screen locator on arbitrary short frame sequences.      *)
(***************************************************************************)
InitScreenSpec ==
    InitFSM({1}) /\ InitScreen(1..MaxCalibFrames, 0..MaxSmoothing) /\ InitStrat({0}, {0})
    /\ InitOrch({FullConfig}, {FALSE}) /\ NoCall /\ NoThread /\ NoSteps /\ NoSingleRoi

DetectFrame ==
    /\ detectCalls < MaxDetects
    /\ \E name \in FrameNames : Detect(name)
    /\ UNCHANGED <<fsmVars, stratVars, orchVars, callVars, lockVars, stepVars, roiVars>>

DoResetDetector ==
    /\ ResetDetector
    /\ UNCHANGED <<fsmVars, stratVars, orchVars, callVars, lockVars, stepVars, roiVars>>

NextScreen == DetectFrame \/ DoResetDetector

SpecScreen == InitScreenSpec /\ [][NextScreen]_vars

(***************************************************************************)
(* SpecCalib: long runs of frames showing both screens, with few misses,   *)
(* for calibrationFrames around the size of the rolling window.            *)
(***************************************************************************)
LongCalibFrames == (kCalibrationWindowSize - 1)..(kCalibrationWindowSize + 1)

InitCalib == InitFSM({1}) /\ InitScreen(LongCalibFrames, {1}) /\ InitStrat({0}, {0})
    /\ InitOrch({FullConfig}, {FALSE}) /\ NoCall /\ NoThread /\ NoSteps /\ NoSingleRoi

DetectLong ==
    /\ detectCalls < kCalibrationWindowSize + CalibExtra
    /\ \E name \in {"both", "black"} :
          /\ name = "black" => misses < MaxMisses
          /\ Detect(name)
    /\ UNCHANGED <<fsmVars, stratVars, orchVars, callVars, lockVars, stepVars, roiVars>>

ResetLong ==
    /\ detectCalls < CalibExtra
    /\ ResetDetector
    /\ UNCHANGED <<fsmVars, stratVars, orchVars, callVars, lockVars, stepVars, roiVars>>

NextCalib == DetectLong \/ ResetLong

SpecCalib == InitCalib /\ [][NextCalib]_vars

(***************************************************************************)
(* SpecStrategy: the strategy called with arbitrary states, times in state *)
(* and verdicts, with OnStuck and Reset calls and a running clock.         *)
(***************************************************************************)
CheckDelays == {0, 2}

\* Times in state given to Tick, in milliseconds: before, one below and at
\* the longer check delay.
TimesInState == {0, 1, 2}

fsmIdle == <<fsmFields, fsmGhosts, fsmResult, stuckResult, lastOp, advances>>

InitStrategy ==
    InitFSM({1}) /\ InitScreen({1}, {1}) /\ InitStrat(CheckDelays, 0..MaxRetries)
    /\ InitOrch({FullConfig}, {FALSE}) /\ NoCall /\ NoThread /\ NoSteps /\ NoSingleRoi

TickStrategy ==
    /\ stratCalls < MaxStratCalls
    /\ \E cs \in StratStates, timeInState \in TimesInState, verdict \in Verdicts :
          StratTick(cs, timeInState, verdict, now)
    /\ UNCHANGED <<fsmVars, screenVars, orchVars, callVars, lockVars, stepVars, roiVars>>

StuckStrategy ==
    /\ stratCalls < MaxStratCalls
    /\ StratOnStuck
    /\ UNCHANGED <<fsmVars, screenVars, orchVars, callVars, lockVars, stepVars, roiVars>>

ResetStrategy ==
    /\ stratCalls < MaxStratCalls
    /\ StratReset(now)
    /\ stratCalls' = stratCalls + 1
    /\ UNCHANGED <<fsmVars, screenVars, orchVars, callVars, lockVars, stepVars, roiVars>>

AdvanceStrategy ==
    /\ now < MaxStratClock * UnitsPerMs
    /\ now' = now + UnitsPerMs
    /\ UNCHANGED <<fsmIdle, screenVars, stratVars, orchVars, callVars, lockVars, stepVars, roiVars>>

NextStrategy == TickStrategy \/ StuckStrategy \/ ResetStrategy \/ AdvanceStrategy

SpecStrategy == InitStrategy /\ [][NextStrategy]_vars

(***************************************************************************)
(* SpecOrch: one call of Run on arbitrary tick events, with Stop() from    *)
(* another thread.  The thread executing Run keeps taking steps.           *)
(***************************************************************************)
InitOrchestrator ==
    /\ InitFSM({1})
    /\ InitScreen({1}, {1})
    /\ InitStratWith({0}, {0}, {0, 2})
    /\ InitOrch(OrchConfigs, BOOLEAN) /\ NoCall /\ NoThread /\ NoSteps /\ NoSingleRoi

EnterRun ==
    /\ CallRun
    /\ UNCHANGED <<fsmVars, screenVars, stratVars, callVars, lockVars, stepVars, roiVars>>

StartRun ==
    /\ \E opens \in BOOLEAN, connects \in BOOLEAN : RunStart(opens, connects)
    /\ UNCHANGED <<fsmVars, screenVars, stratVars, callVars, lockVars, stepVars, roiVars>>

TickRun ==
    /\ ticks < MaxTicks
    /\ \E ev \in TickEvents : LoopTick(ev)
    /\ UNCHANGED <<fsmVars, screenVars, stratVars, callVars, lockVars, stepVars, roiVars>>

ExitRun ==
    /\ LoopExit
    /\ UNCHANGED <<fsmVars, screenVars, stratVars, callVars, lockVars, stepVars, roiVars>>

CleanupRun ==
    /\ \E releaseThrows \in BOOLEAN : Cleanup(releaseThrows)
    /\ UNCHANGED <<fsmVars, screenVars, stratVars, callVars, lockVars, stepVars, roiVars>>

StopRun ==
    /\ ExternalStop
    /\ UNCHANGED <<fsmVars, screenVars, stratVars, callVars, lockVars, stepVars, roiVars>>

RunStep == StartRun \/ TickRun \/ ExitRun \/ CleanupRun

NextOrch == EnterRun \/ StartRun \/ TickRun \/ ExitRun \/ CleanupRun \/ StopRun

SpecOrch == InitOrchestrator /\ [][NextOrch]_vars /\ WF_vars(RunStep)

(***************************************************************************)
(* SpecLive: Run without a bound on its ticks, on the tracker itself.  The *)
(* clock advances while Run executes, the frames that arrive show the      *)
(* tracker's state or nothing, the strategy sends no input, and the source *)
(* may run out of frames.  Nobody calls Stop() from outside.  The ticks    *)
(* are counted modulo LiveTickCycle, which keeps the state space finite    *)
(* and every tick a step.                                                  *)
(***************************************************************************)
MaxStallAdvances == 2   \* clock advances explored per run
LiveTickCycle == 2      \* ticks are counted modulo this

LiveClockSteps == {UnitsPerMs, UnitsPerMs * kMsPerSecond}

\* Frames in which at most the rule of the initial state matches.
StallFrames ==
    { f \in Frames :
        /\ f.bottom["C"] = 0
        /\ \A s \in StateIds \ {initialState} : f.top[s] = 0 }

LiveEvents ==
    { e \in TickEvents : e.tick # "SendInput" /\ e.stuck = "no" }

\* The event ev with the answer fsm->IsStuck() gives at clock reading t.
Watched(ev, t) ==
    [ev EXCEPT !.stuck = IF IsStuck(t) THEN "yes" ELSE "no"]

InitLive ==
    /\ InitFSM({1})
    /\ InitScreen({1}, {1})
    /\ InitStrat({0}, {0})
    /\ InitOrch({FullConfig}, BOOLEAN) /\ NoCall /\ NoThread /\ NoSteps /\ NoSingleRoi

EnterLive ==
    /\ CallRun
    /\ UNCHANGED <<fsmVars, screenVars, stratVars, callVars, lockVars, stepVars, roiVars>>

StartLive ==
    /\ \E opens \in BOOLEAN, connects \in BOOLEAN : RunStart(opens, connects)
    /\ UNCHANGED <<fsmVars, screenVars, stratVars, callVars, lockVars, stepVars, roiVars>>

\* One iteration of the loop: Grab yields nothing once the source is
\* exhausted, and a tick that reaches fsm->Update changes the tracker.
TickLive ==
    /\ \E ev \in LiveEvents :
          /\ exhausted => ev.grab = "none"
          /\ LoopTickBody(Watched(ev, now))
    /\ (IF "Update" \in Range(tickCalls') /\ lastEv'.update = "ok"
        THEN \E f \in StallFrames : Update(f, now)
        ELSE UNCHANGED fsmIdle)
    /\ ticks' = (ticks + 1) % LiveTickCycle
    /\ UNCHANGED <<now, screenVars, stratVars, callVars, lockVars, stepVars, roiVars>>

ExitLive ==
    /\ LoopExit
    /\ UNCHANGED <<fsmVars, screenVars, stratVars, callVars, lockVars, stepVars, roiVars>>

CleanupLive ==
    /\ \E releaseThrows \in BOOLEAN : Cleanup(releaseThrows)
    /\ UNCHANGED <<fsmVars, screenVars, stratVars, callVars, lockVars, stepVars, roiVars>>

\* Time passes.
AdvanceLive ==
    /\ advances < MaxStallAdvances
    /\ \E d \in LiveClockSteps : now' = now + d
    /\ advances' = advances + 1
    /\ UNCHANGED <<fsmFields, fsmGhosts, fsmResult, stuckResult, lastOp,
                   screenVars, stratVars, orchVars, callVars, lockVars, stepVars, roiVars>>

\* The frame source delivers its last frame.
ExhaustLive ==
    /\ ~exhausted
    /\ exhausted' = TRUE
    /\ UNCHANGED <<fsmVars, screenVars, stratVars, orchFields, orchOp, lastEv,
                   tickCalls, runLog, ticks, threwInTick, decidedStop,
                   propagated, cleanupThrew, prevOrch, stopRequested, callVars, lockVars, stepVars, roiVars>>

LiveStep == StartLive \/ TickLive \/ ExitLive \/ CleanupLive

NextLive ==
    EnterLive \/ StartLive \/ TickLive \/ ExitLive \/ CleanupLive
        \/ AdvanceLive \/ ExhaustLive

SpecLive == InitLive /\ [][NextLive]_vars /\ WF_vars(LiveStep)

(***************************************************************************)
(* HuntProfiles::CreateXYStarterSR.  The detection parameters are          *)
(* represented by the set of state ids that have an entry in               *)
(* params.stateParams; an error message by the sequence of its parts.      *)
(***************************************************************************)
\* The states CreateXYStarterSR adds, in the order of its AddState calls.
RequiredStates ==
    << "load_game", "game_start", "cutscene_start", "cutscene", "starter_pick",
       "nickname_prompt", "post_selection", "cutscene_end", "party_menu",
       "pokemon_summary", "soft_reset" >>

NoTracker == [initialState |-> "", debounceFrames |-> 0, states |-> <<>>]

\* The graph in which party_menu cannot be abandoned by a soft reset.
XYTransitionsToKeepsParty(stateId) ==
    CASE stateId = "load_game"       -> <<"game_start", "soft_reset">>
      [] stateId = "game_start"      -> <<"cutscene_start", "soft_reset">>
      [] stateId = "cutscene_start"  -> <<"cutscene", "soft_reset">>
      [] stateId = "cutscene"        -> <<"starter_pick", "soft_reset">>
      [] stateId = "starter_pick"    -> <<"nickname_prompt", "soft_reset">>
      [] stateId = "nickname_prompt" -> <<"post_selection", "soft_reset">>
      [] stateId = "post_selection"  -> <<"cutscene_end", "soft_reset">>
      [] stateId = "cutscene_end"    -> <<"party_menu", "soft_reset">>
      [] stateId = "party_menu"      -> <<"pokemon_summary">>
      [] stateId = "pokemon_summary" -> <<"soft_reset">>
      [] stateId = "soft_reset"      -> <<"load_game">>
      [] OTHER                       -> <<>>

\* CreateXYStarterSR: the .transitionsTo of each AddState.
XYTransitionsTo(stateId) ==
    CASE stateId = "load_game"       -> <<"game_start", "soft_reset">>
      [] stateId = "game_start"      -> <<"cutscene_start", "soft_reset">>
      [] stateId = "cutscene_start"  -> <<"cutscene", "soft_reset">>
      [] stateId = "cutscene"        -> <<"starter_pick", "soft_reset">>
      [] stateId = "starter_pick"    -> <<"nickname_prompt", "soft_reset">>
      [] stateId = "nickname_prompt" -> <<"post_selection", "soft_reset">>
      [] stateId = "post_selection"  -> <<"cutscene_end", "soft_reset">>
      [] stateId = "cutscene_end"    -> <<"party_menu", "soft_reset">>
      [] stateId = "party_menu"      -> <<"pokemon_summary", "soft_reset">>
      [] stateId = "pokemon_summary" -> <<"soft_reset">>
      [] stateId = "soft_reset"      -> <<"load_game">>
      [] OTHER                       -> <<>>

\* CreateXYStarterSR: the .maxDurationS of each AddState.
XYMaxDurationS(stateId) ==
    CASE stateId \in {"load_game", "starter_pick", "post_selection",
                      "cutscene_end", "soft_reset"} -> 15
      [] stateId \in {"game_start", "cutscene_start", "nickname_prompt",
                      "party_menu"} -> 10
      [] stateId = "cutscene" -> 30
      [] OTHER -> 20

\* The StateConfig handed to Builder::AddState for this id.
XYStateConfig(stateId) ==
    [id |-> stateId, transitionsTo |-> XYTransitionsTo(stateId),
     maxDurationS |-> XYMaxDurationS(stateId),
     shinyCheck |-> (stateId = "pokemon_summary")]

\* RequireState that falls back to default parameters.
RequireStateLenient(params, stateId) == [threw |-> FALSE, what |-> <<>>]

\* RequireState: throws std::runtime_error when stateId has no entry.
RequireState(params, stateId) ==
    IF stateId \notin params.stateParams
    THEN [threw |-> TRUE,
          what |-> << "HuntProfiles: missing detection params for required state '",
                      stateId,
                      "'. Check fsm_states in your hunt config YAML." >>]
    ELSE [threw |-> FALSE, what |-> <<>>]

\* The first AddState whose RequireState throws ends the construction.
CreateXYStarterSR(params) ==
    LET failing == { i \in 1..Len(RequiredStates) :
                        RequireState(params, RequiredStates[i]).threw }
    IN  IF failing # {}
        THEN LET first == CHOOSE i \in failing : \A j \in failing : i <= j
             IN  [threw |-> TRUE,
                  what |-> RequireState(params, RequiredStates[first]).what,
                  fsm |-> NoTracker]
        ELSE [threw |-> FALSE, what |-> <<>>,
              fsm |-> [initialState |-> "load_game",
                       debounceFrames |-> params.debounceFrames,
                       states |-> [i \in 1..Len(RequiredStates) |->
                                      XYStateConfig(RequiredStates[i])]]]

\* Detection parameters a hunt configuration may carry: any subset of the
\* required states, with or without a state the profile does not know.
ProfileParams ==
    { [stateParams |-> S, debounceFrames |-> 2] :
        S \in SUBSET (Range(RequiredStates) \cup {"cutscene_part_1"}) }

InitProfile ==
    /\ InitFSM({1})
    /\ InitScreen({1}, {1})
    /\ InitStrat({0}, {0})
    /\ InitOrch({FullConfig}, {FALSE})
    /\ NoThread /\ NoSteps /\ NoSingleRoi
    /\ callName = ""
    /\ callArgs \in ProfileParams
    /\ callResult = <<>>

CallCreateXYStarterSR ==
    /\ callName = ""
    /\ callName' = "CreateXYStarterSR"
    /\ callResult' = CreateXYStarterSR(callArgs)
    /\ UNCHANGED <<callArgs, fsmVars, screenVars, stratVars, orchVars, lockVars, stepVars, roiVars>>

NextProfile == CallCreateXYStarterSR

SpecProfile == InitProfile /\ [][NextProfile]_vars

(***************************************************************************)
(* FramePreprocessor::ExtractRois.  A region definition gives x, y, w, h   *)
(* as fractions n / RoiDen of the rectified image's width and height; a    *)
(* fraction whose numerator reaches kHugeNum stands for a value whose      *)
(* product with the image size lies outside the range of int.              *)
(***************************************************************************)
RoiDen == 800           \* denominator of the fractions explored

kTopScreenWidth == 400
kTopScreenHeight == 240
kIntMax == 2147483647
kHugeNum == 1000000000

\* std::round of a / b for b > 0: halves away from zero.
Round(a, b) ==
    IF a >= 0 THEN (2 * a + b) \div (2 * b)
    ELSE 0 - ((2 * (0 - a) + b) \div (2 * b))

\* What static_cast<int> may yield for a value outside the range of int.
CastOutcomes == {0 - kIntMax - 1, 0 - 1, 0, 1, kIntMax}

\* static_cast<int>(std::round(fraction * size)); u is what the cast yields
\* when the rounded value is not representable.
ToPixels(num, size, u) ==
    IF Abs(num) >= kHugeNum THEN u ELSE Round(num * size, RoiDen)

Max(a, b) == IF a > b THEN a ELSE b

\* ExtractRois lines 122-123: std::max(0, std::min(x, size - 1)).
ClampPosition(p, size) == Max(0, Min(p, size - 1))

\* The extent as given, not cut at the border of the image.
ClampExtentNone(e, size, p) == e

\* ExtractRois lines 124-125: std::min(w, size - x).
ClampExtent(e, size, p) == Min(e, size - p)

\* cv::Mat::operator()(cv::Rect) throws unless the rectangle lies within
\* the image.
RectInside(r, width, height) ==
    /\ 0 <= r.x /\ 0 <= r.w /\ r.w <= width - r.x
    /\ 0 <= r.y /\ 0 <= r.h /\ r.h <= height - r.y

\* The rectangle lines 117-125 compute for one region definition.
ClampedRect(roiDef, width, height, u, v) ==
    LET x == ClampPosition(ToPixels(roiDef.x, width, u), width)
        y == ClampPosition(ToPixels(roiDef.y, height, u), height)
    IN  [name |-> roiDef.name, x |-> x, y |-> y,
         w |-> ClampExtent(ToPixels(roiDef.w, width, v), width, x),
         h |-> ClampExtent(ToPixels(roiDef.h, height, v), height, y)]

RECURSIVE ExtractFrom(_, _, _, _, _, _)
\* The loop of ExtractRois from region i on: the rectangles extracted so
\* far, and whether extracting one threw.
ExtractFrom(roiDefs, i, width, height, u, v) ==
    IF i > Len(roiDefs) THEN [rois |-> <<>>, threw |-> FALSE]
    ELSE LET r == ClampedRect(roiDefs[i], width, height, u, v)
             rest == ExtractFrom(roiDefs, i + 1, width, height, u, v)
         IN  IF r.w > 0 /\ r.h > 0
             THEN IF ~RectInside(r, width, height)
                  THEN [rois |-> <<>>, threw |-> TRUE]
                  ELSE [rois |-> <<r>> \o rest.rois, threw |-> rest.threw]
             ELSE rest

ExtractRois(roiDefs, width, height, u, v) ==
    ExtractFrom(roiDefs, 1, width, height, u, v)

RoiDefinition(name, x, y, w, h) == [name |-> name, x |-> x, y |-> y, w |-> w, h |-> h]

\* Numerators explored: negative, zero, inside, at and beyond the image,
\* rounding up and down, and beyond the range of int.
RoiNumerators ==
    {0 - kHugeNum, 0 - RoiDen - 1, 0 - 1, 0, 1, 3, RoiDen - 1, RoiDen,
     RoiDen + RoiDen \div 2, kHugeNum}

\* The region the repository's tests use throughout.
FullScreenRoi == RoiDefinition("full_screen", 0, 0, RoiDen, RoiDen)

\* Lists of one region, and of one region followed by the full screen.
RoiLists ==
    LET one == { RoiDefinition("roi", x, y, w, h) :
                    x \in RoiNumerators, y \in RoiNumerators,
                    w \in RoiNumerators, h \in RoiNumerators }
    IN  { <<r>> : r \in one }
            \cup { <<r, FullScreenRoi>> : r \in { q \in one : q.x = q.y /\ q.w = q.h } }

InitRois ==
    /\ InitFSM({1})
    /\ InitScreen({1}, {1})
    /\ InitStrat({0}, {0})
    /\ InitOrch({FullConfig}, {FALSE})
    /\ NoThread /\ NoSteps /\ NoSingleRoi
    /\ callName = ""
    /\ callArgs \in { [roiDefs |-> l, targetWidth |-> kTopScreenWidth,
                       targetHeight |-> kTopScreenHeight] : l \in RoiLists }
    /\ callResult = <<>>

CallExtractRois ==
    /\ callName = ""
    /\ callName' = "ExtractRois"
    /\ \E u \in CastOutcomes, v \in CastOutcomes :
          callResult' = ExtractRois(callArgs.roiDefs, callArgs.targetWidth,
                                    callArgs.targetHeight, u, v)
    /\ UNCHANGED <<callArgs, fsmVars, screenVars, stratVars, orchVars, lockVars, stepVars, roiVars>>

NextRois == CallExtractRois

SpecRois == InitRois /\ [][NextRois]_vars

(***************************************************************************)
(* SpecLock: two threads calling the public operations of one              *)
(* ScreenDetector.  An operation is the sequence of its lock, unlock and   *)
(* field accesses in program order; std::lock_guard locks at its           *)
(* declaration and unlocks when the operation returns.                     *)
(***************************************************************************)
MutableFields ==
    {"calibrated", "calibratedResult", "calibrationWindow", "smoothedTopCorners",
     "smoothedBottomCorners", "framesSinceTopDetection",
     "framesSinceBottomDetection", "splitPointY"}

Lock == [kind |-> "lock", field |-> ""]

Unlock == [kind |-> "unlock", field |-> ""]

Read(field) == [kind |-> "read", field |-> field]

Write(field) == [kind |-> "write", field |-> field]

\* ScreenDetector::DetectOnce on a frame with one candidate: ClassifyCandidates
\* compares it with the remembered split line.
DetectOnceSteps == << Read("splitPointY") >>

\* ScreenDetector::Detect once calibrated.
DetectLockedSteps ==
    << Lock, Read("calibrated"), Read("calibratedResult"), Unlock >>

\* ScreenDetector::Detect before calibration, on a frame that locks it.
DetectSteps ==
    << Lock, Read("calibrated") >> \o DetectOnceSteps \o
    << Write("framesSinceTopDetection"), Read("smoothedTopCorners"),
       Write("smoothedTopCorners"),
       Write("framesSinceBottomDetection"), Read("smoothedBottomCorners"),
       Write("smoothedBottomCorners"),
       Write("splitPointY"),
       Write("calibrationWindow"), Read("calibrationWindow"),
       Write("calibrated"), Write("calibratedResult"), Unlock >>

\* ScreenDetector::IsCalibrated.
IsCalibratedSteps == << Read("calibrated") >>

\* ScreenDetector::Reset.
ResetSteps ==
    << Lock, Write("smoothedTopCorners"), Write("smoothedBottomCorners"),
       Write("framesSinceTopDetection"), Write("framesSinceBottomDetection"),
       Write("splitPointY"), Write("calibrated"), Write("calibrationWindow"),
       Write("calibratedResult"), Unlock >>

\* The public operations; ApplyTo reaches the fields through Detect.
Programs ==
    << [op |-> "Detect", steps |-> DetectSteps],
       [op |-> "Detect", steps |-> DetectLockedSteps],
       [op |-> "ApplyTo", steps |-> DetectSteps],
       [op |-> "ApplyTo", steps |-> DetectLockedSteps],
       [op |-> "Reset", steps |-> ResetSteps],
       [op |-> "IsCalibrated", steps |-> IsCalibratedSteps],
       [op |-> "DetectOnce", steps |-> DetectOnceSteps] >>

InitLock ==
    /\ InitFSM({1})
    /\ InitScreen({1}, {1})
    /\ InitStrat({0}, {0})
    /\ InitOrch({FullConfig}, {FALSE}) /\ NoCall /\ NoThread /\ NoSteps /\ NoSingleRoi

\* Thread t calls a public operation.
BeginOp(t) ==
    /\ threadAt[t] = IdleThread
    /\ \E p \in 1..Len(Programs) :
          threadAt' = [threadAt EXCEPT ![t] =
                          [op |-> Programs[p].op, program |-> p, step |-> 1]]
    /\ UNCHANGED <<mutexOwner, lastAccess>>

\* Thread t executes the next step of its operation and returns after the
\* last one; a lock step waits until the mutex is free.
StepOp(t) ==
    /\ threadAt[t] # IdleThread
    /\ LET steps == Programs[threadAt[t].program].steps
           s == steps[threadAt[t].step]
       IN  /\ s.kind = "lock" => mutexOwner = 0
           /\ mutexOwner' = (IF s.kind = "lock" THEN t
                             ELSE IF s.kind = "unlock" THEN 0
                             ELSE mutexOwner)
           /\ lastAccess' = (IF s.kind \in {"read", "write"}
                             THEN [thread |-> t, field |-> s.field, kind |-> s.kind,
                                   held |-> mutexOwner = t]
                             ELSE lastAccess)
           /\ threadAt' = [threadAt EXCEPT ![t] =
                              IF threadAt[t].step = Len(steps) THEN IdleThread
                              ELSE [@ EXCEPT !.step = @ + 1]]

CallOp ==
    /\ \E t \in Threads : BeginOp(t)
    /\ UNCHANGED <<fsmVars, screenVars, stratVars, orchVars, callVars, stepVars, roiVars>>

RunOp ==
    /\ \E t \in Threads : StepOp(t)
    /\ UNCHANGED <<fsmVars, screenVars, stratVars, orchVars, callVars, stepVars, roiVars>>

NextLock == CallOp \/ RunOp

SpecLock == InitLock /\ [][NextLock]_vars

(***************************************************************************)
(* Properties of the tracker.                                              *)
(***************************************************************************)

\* C1: with debounce threshold N, Update returns a transition to S (and
\* changes the current state) only on a tick that completes N consecutive
\* ticks all favouring S; any tick favouring another state, the current
\* state or no state restarts the count, so fewer than N never commit.
C1_CommitOnlyAfterNConsecutive ==
    lastOp = "Update" =>
        /\ fsmResult # NoTransition =>
              /\ streakState = fsmResult.to
              /\ streakLen >= debounceFrames
        /\ currentState # prevCurrent => fsmResult # NoTransition

C1_Witness ==
    /\ lastOp = "Update"
    /\ fsmResult # NoTransition
    /\ debounceFrames >= 3
    /\ streakLen = debounceFrames
    /\ ticksSinceReset > debounceFrames

\* C2: when a state S reachable from the current state has been favoured
\* on N = debounceFrames consecutive Update calls, the N-th call returns
\* {from: the state current before the call, to: S} and the current state
\* is S afterwards.
C2_NthMatchCommits ==
    (lastOp = "Update" /\ streakState # "" /\ streakLen >= debounceFrames) =>
        /\ fsmResult # NoTransition
        /\ fsmResult.from = prevCurrent
        /\ fsmResult.to = streakState
        /\ currentState = streakState

C2_Witness ==
    /\ lastOp = "Update"
    /\ debounceFrames = 2
    /\ streakLen = 2
    /\ fsmResult.from = "B"
    /\ currentState = "D"

C4_TerminalStateNeverLeaves ==
    [][ (Reachable(currentState) = {} /\ lastOp' = "Update")
            => /\ currentState' = currentState
               /\ fsmResult' \in {NoTransition, fsmResult}
               /\ transitionHistory' = transitionHistory ]_vars

C4_Witness ==
    /\ lastOp = "Update"
    /\ Reachable(currentState) = {}
    /\ prevCurrent = currentState
    /\ unreachableTicks > debounceFrames
    /\ fsmResult = NoTransition

\* C5: the transition history never holds more than 1000 entries and is
\* always the contiguous suffix, in commit order, of all transitions
\* committed since the last Reset.
C5_HistoryBoundedSuffix ==
    /\ Len(transitionHistory) <= kHistoryMax
    /\ Len(transitionHistory) <= Len(allCommitted)
    /\ transitionHistory =
          SubSeq(allCommitted,
                 Len(allCommitted) - Len(transitionHistory) + 1,
                 Len(allCommitted))

C5_Witness ==
    /\ Len(allCommitted) > kHistoryMax + kHistoryDrop
    /\ Len(transitionHistory) < kHistoryMax

\* C6: Reset in any state puts the tracker back into the state of a fresh
\* one (initial id, no pending candidate, counter 0, empty history), and
\* the first transition after it needs a full N matching ticks again.
C6_ResetIsFresh ==
    /\ lastOp = "Reset" =>
          /\ currentState = initialState
          /\ treeState = initialState
          /\ pendingState = ""
          /\ pendingFrameCount = 0
          /\ transitionHistory = <<>>
          /\ stateEnteredAt = now
    /\ Len(allCommitted) >= 1 => ticksSinceReset >= debounceFrames
    /\ (lastOp = "Update" /\ ticksSinceReset = debounceFrames
          /\ streakLen = debounceFrames /\ streakState # "")
          => Len(allCommitted) = 1

C6_Witness ==
    /\ resetFromPending
    /\ lastOp = "Update"
    /\ debounceFrames >= 2
    /\ ticksSinceReset = debounceFrames
    /\ Len(allCommitted) = 1
    /\ currentState # initialState

\* The dwell limit of the current state, in clock units.
MaxDwellUnits ==
    LET k == FindStateConfig(currentState)
    IN  IF k = 0 THEN kUnknownMaxDurationS * kMsPerSecond * UnitsPerMs
        ELSE stateConfigs[k].maxDurationS * kMsPerSecond * UnitsPerMs

C8_LockedDetectIsFrozen ==
    [][ /\ (calibrated /\ sdLastOp' = "Detect" /\ detectCalls' # detectCalls)
            => /\ detectResult' = calibratedResult
               /\ UNCHANGED screenFields
        /\ (calibrated /\ ~calibrated') => sdLastOp' = "Reset" ]_vars

C8_Witness ==
    /\ sdLastOp = "Detect"
    /\ calibratedBefore
    /\ lastFrame = "empty"
    /\ detectResult = calibratedResult
    /\ Has(detectResult.topScreen)
    /\ Has(detectResult.bottomScreen)

\* C9 as stated: for every calibrationFrames = N >= 1, starting from a
\* fresh or Reset detector, Detect calls on frames that each show both
\* screens lock on the N-th call: not calibrated after fewer than N calls,
\* calibrated after N.
C9_LocksOnNthBothFrame ==
    bothRun >= 0 => (calibrated <=> bothRun >= calibrationFrames)

\* C10 as stated: the calibration locks only when at least 80% of the
\* frames in the rolling window were frames in which both screens were
\* detected, a frame with a missed screen counting as a failure.
C10_LockNeedsDetectedRate ==
    calibrated =>
        Successes(realWindow) * kSuccessDen >= kSuccessNum * Len(realWindow)

\* C11: while the locator is not locked, a role detected before and missed
\* for the k-th consecutive frame is returned with the corners smoothed at
\* its last detection, held = TRUE and confidence 0 when k <= window, and
\* is not returned at all when k > window; a frame that detects the role
\* returns it not held and restarts the count of misses.
C11_HeldForWindowFrames ==
    (sdLastOp = "Detect" /\ ~calibratedBefore) =>
        /\ \A k \in 1..smoothingWindowSize :
              /\ missRun.top = k =>
                    /\ detectResult.topScreen.held
                    /\ detectResult.topScreen.confidence = 0
                    /\ detectResult.topScreen.corners = lastSmoothed.top
              /\ missRun.bottom = k =>
                    /\ detectResult.bottomScreen.held
                    /\ detectResult.bottomScreen.confidence = 0
                    /\ detectResult.bottomScreen.corners = lastSmoothed.bottom
        /\ missRun.top > smoothingWindowSize => detectResult.topScreen = NoScreen
        /\ missRun.bottom > smoothingWindowSize => detectResult.bottomScreen = NoScreen
        /\ missRun.top = 0 =>
              /\ Has(detectResult.topScreen)
              /\ ~detectResult.topScreen.held
        /\ missRun.bottom = 0 =>
              /\ Has(detectResult.bottomScreen)
              /\ ~detectResult.bottomScreen.held

\* One role held for the second frame in a row while the other role, missed
\* for longer than the window, is no longer returned.
C11_Witness ==
    /\ sdLastOp = "Detect"
    /\ ~calibratedBefore
    /\ smoothingWindowSize = 2
    /\ missRun.top = 2
    /\ detectResult.topScreen.held
    /\ missRun.bottom > smoothingWindowSize
    /\ detectResult.bottomScreen = NoScreen

(***************************************************************************)
(* Properties of the strategy.                                             *)
(***************************************************************************)

\* C12: a Tick in the check state whose time in state is below the check
\* delay returns Wait whatever the verdict, and leaves the statistics
\* counters unchanged (and, when the state did not change, the step index
\* and the stuck counter as well).
C12_WaitBeforeCheckDelay ==
    (/\ stratOp = "Tick"
     /\ tickInput.state = huntConfig.shinyCheckState
     /\ tickInput.timeInState < huntConfig.shinyCheckDelayMs) =>
        /\ decision.action = "Wait"
        /\ stats = prevStrat.stats
        /\ ~stayChanged =>
              /\ actionIndex = prevStrat.actionIndex
              /\ consecutiveStuckCount = prevStrat.consecutiveStuckCount

\* A positive verdict given one millisecond before the delay, after an
\* encounter was already counted.
C12_Witness ==
    /\ stratOp = "Tick"
    /\ tickInput.state = huntConfig.shinyCheckState
    /\ huntConfig.shinyCheckDelayMs = 2
    /\ tickInput.timeInState = 1
    /\ tickInput.verdict = "Shiny"
    /\ decision.action = "Wait"
    /\ stats.encounters = 1
    /\ stats.shiniesFound = 0

\* C13: a positive verdict at or after the check delay returns Alert and
\* adds one to the anomaly counter, and one stay in the check state never
\* yields a second Alert.
C13_AlertExactlyOnce ==
    /\ (/\ stratOp = "Tick"
         /\ tickInput.state = huntConfig.shinyCheckState
         /\ tickInput.timeInState >= huntConfig.shinyCheckDelayMs
         /\ tickInput.verdict = "Shiny"
         /\ resolvedInStay = 1) =>
            /\ decision.action = "AlertShiny"
            /\ stats.shiniesFound = prevStrat.stats.shiniesFound + 1
    /\ alertsInStay <= 1

\* C14: once a verdict has resolved the check in a stay, a later Tick of
\* the same stay does not evaluate its verdict: no Alert, no counter change.
C14_ResolvedOncePerEntry ==
    (stratOp = "Tick" /\ resolvedInStay = 2) =>
        /\ decision.action # "AlertShiny"
        /\ stats = prevStrat.stats

\* C15: the strategy never returns CheckShiny; in the check state after the
\* delay an uncertain or absent verdict returns Wait.
C15_NeverRequestsRecheck ==
    stratOp = "Tick" =>
        /\ decision.action # "CheckShiny"
        /\ (/\ tickInput.state = huntConfig.shinyCheckState
             /\ tickInput.timeInState >= huntConfig.shinyCheckDelayMs
             /\ tickInput.verdict \in {"none", "Uncertain"}) =>
                decision.action = "Wait"

\* C16: the k-th OnStuck call since the last state change or Reset returns
\* SendInput with the recovery combo L+R+START and a hold delay when
\* k <= maxRetries and Abort when k > maxRetries; every call adds one to the
\* recovery counter.
C16_StuckRecoveryBounded ==
    stratOp = "OnStuck" =>
        /\ stuckRun <= huntConfig.maxRetries =>
              decision = Decision("SendInput", kStuckHoldMs, 512 + 256 + 8)
        /\ stuckRun > huntConfig.maxRetries =>
              decision = Decision("Abort", 0, NoCommand)
        /\ stats.watchdogRecoveries = prevStrat.stats.watchdogRecoveries + 1

\* The third call in a row with maxRetries = 2 aborts.
C16_Witness ==
    /\ stratOp = "OnStuck"
    /\ huntConfig.maxRetries = 2
    /\ stuckRun = 3
    /\ decision.action = "Abort"
    /\ stats.watchdogRecoveries = 3

(***************************************************************************)
(* Properties of the orchestrator.                                         *)
(***************************************************************************)

C18_AlertAbortStopTheLoop ==
    /\ [][decidedStop => /\ ticks' = ticks
                          /\ tickCalls' = tickCalls
                          /\ runLog' \in {runLog, Append(runLog, "ReleaseAll")}]_vars
    /\ [](( /\ orchOp = "Tick"
             /\ "Tick" \in Range(tickCalls)
             /\ lastEv.tick \in {"CheckShiny", "Wait"} ) =>
                /\ TransportCalls(tickCalls) = <<>>
                /\ lastEv.stuck = "no" => running = prevOrch.running)
    /\ (decidedStop ~> pc = "returned")

\* Run has returned after an Alert in its second tick, the first having
\* sent an input.
C18_Witness ==
    /\ pc = "returned"
    /\ decidedStop
    /\ lastEv.tick = "AlertShiny"
    /\ ticks = 2
    /\ "Send" \in Range(runLog)

\* C19: when Run has returned after a Send, a ReleaseAll was invoked on the
\* transport after the last Send.
C19_ReleaseAfterLastSend ==
    (pc = "returned" /\ "Send" \in Range(runLog)) =>
        \E i \in 1..Len(runLog) :
            /\ runLog[i] = "ReleaseAll"
            /\ \A j \in i..Len(runLog) : runLog[j] # "Send"

\* Run returned after a tick in which Send threw, an earlier tick having
\* sent an input without hold delay: the only release is the cleanup's.
C19_Witness ==
    /\ pc = "returned"
    /\ threwInTick
    /\ lastEv.send = "throw"
    /\ runLog = <<"Send", "Send", "ReleaseAll">>

\* C20: after a tick that ended by an exception no tick is executed, the
\* cleanup invokes ReleaseAll on a connected transport, and Run returns
\* without propagating an exception, also when that ReleaseAll throws.
C20_ExceptionIsFatalAndContained ==
    /\ [][threwInTick => ticks' = ticks]_vars
    /\ []((pc = "returned" /\ threwInTick) =>
              /\ ~propagated
              /\ (orchConfig.hasInput /\ connected) =>
                    /\ runLog # <<>>
                    /\ runLog[Len(runLog)] = "ReleaseAll")
    /\ (threwInTick ~> pc = "returned")

\* The strategy threw an exception not derived from std::exception, the
\* cleanup's ReleaseAll threw as well, and Run returned.
C20_Witness ==
    /\ pc = "returned"
    /\ threwInTick
    /\ lastEv.tick = "throw"
    /\ lastEv.kind = "other"
    /\ cleanupThrew
    /\ ~propagated

\* C21: once Stop() has been called from another thread or a signal handler
\* after Run was entered, Run starts no further tick.
C21_StopNeverLost ==
    [][stopRequested => ticks' = ticks]_vars

\* C22: in dry-run mode a tick whose decision is SendInput makes no Send,
\* hold sleep or ReleaseAll; its other calls, its effect on the loop and on
\* the watchdog count are those of the same tick in normal mode with a
\* transport that does not throw.
C22_DryRunSendsNothing ==
    (/\ orchOp = "Tick"
     /\ orchConfig.dryRun
     /\ "Tick" \in Range(tickCalls)
     /\ lastEv.tick = "SendInput") =>
        LET working == [lastEv EXCEPT !.send = "ok", !.release = "ok"]
            normal == MainLoopTick(working, FALSE, orchConfig.hasInput, connected,
                                   orchConfig.hasScreenDetector,
                                   orchConfig.hasDetector)
            others == SelectSeq(normal.calls,
                                LAMBDA c : c \notin {"Send", "Sleep", "ReleaseAll"})
        IN  /\ Range(tickCalls) \cap {"Send", "Sleep", "ReleaseAll"} = {}
            /\ tickCalls = others
            /\ tickCalls[Len(tickCalls)] = "IsStuck"
            /\ {"Update", "Tick"} \subseteq Range(tickCalls)
            /\ ~threwInTick
            /\ running = (prevOrch.running /\ ~normal.stop)
            /\ watchdogStuckCount = prevOrch.watchdogStuckCount + normal.inc

\* A dry-run tick with a connected transport decided SendInput with a hold
\* delay and found the tracker stuck: nothing was sent in the whole run.
C22_Witness ==
    /\ orchOp = "Tick"
    /\ orchConfig.dryRun
    /\ connected
    /\ lastEv.tick = "SendInput"
    /\ lastEv.delay > 0
    /\ lastEv.stuck = "yes"
    /\ ticks = 2
    /\ runLog = <<>>
    /\ ~running

C24_SkippedTickDoesNothing ==
    (/\ orchOp = "Tick"
     /\ \/ lastEv.grab = "none"
        \/ lastEv.grab = "frame" /\ lastEv.rectify = "none") =>
        /\ ~threwInTick
        /\ pc = "loop"
        /\ Range(tickCalls) \subseteq {"Grab", "ApplyTo", "ProcessDualScreen"}
        /\ TransportCalls(tickCalls) = <<>>
        /\ running = prevOrch.running
        /\ watchdogStuckCount = prevOrch.watchdogStuckCount
        /\ OrchStats.watchdogRecoveries
              = stats.watchdogRecoveries + prevOrch.watchdogStuckCount

\* The second tick had a frame without rectifiable screens, after a tick
\* that sent an input; the loop is still running.
C24_Witness ==
    /\ orchOp = "Tick"
    /\ lastEv.grab = "frame"
    /\ lastEv.rectify = "none"
    /\ tickCalls = <<"Grab", "ApplyTo", "ProcessDualScreen">>
    /\ ticks = 2
    /\ runLog = <<"Send">>
    /\ running

\* C25: a tick runs the classifier only if the tracker's state after this
\* tick's Update is the state that requires the anomaly check.
C25_ClassifierOnlyInCheckState ==
    (orchOp = "Tick" /\ "Detect" \in Range(tickCalls)) => lastEv.checkState

\* C26: whenever the tracker has stayed in its state for longer than the
\* state's maximal duration while the loop of Run executes, Run eventually
\* returns.
C26_StallAbortsRun ==
    (pc = "loop" /\ IsStuck(now)) ~> (pc = "returned")

\* C27: once the frame source is exhausted while Run executes, Run
\* eventually returns.
C27_ExhaustedSourceEndsRun ==
    (exhausted /\ pc \in {"entered", "loop"}) ~> (pc = "returned")

(***************************************************************************)
(* Properties of the functions that keep no state.                         *)
(***************************************************************************)

C29_ExtractedRectInsideImage ==
    (callName = "ExtractRois") =>
        LET width == callArgs.targetWidth
            height == callArgs.targetHeight
            names == { callResult.rois[i].name : i \in 1..Len(callResult.rois) }
        IN  /\ ~callResult.threw
            /\ \A i \in 1..Len(callResult.rois) :
                  LET r == callResult.rois[i]
                  IN  /\ r.w > 0 /\ r.h > 0
                      /\ 0 <= r.x /\ r.x < width /\ r.w <= width - r.x
                      /\ 0 <= r.y /\ r.y < height /\ r.h <= height - r.y
            /\ \A i \in 1..Len(callArgs.roiDefs) :
                  LET d == callArgs.roiDefs[i]
                  IN  (\/ (0 - kHugeNum < d.w /\ d.w <= 0)
                       \/ (0 - kHugeNum < d.h /\ d.h <= 0)) => d.name \notin names

\* The oversized region of the repository's test shape: it starts inside
\* the image, reaches beyond it and is cut at the border.
C29_Witness ==
    /\ callName = "ExtractRois"
    /\ callArgs.roiDefs = <<RoiDefinition("roi", RoiDen - 1, RoiDen - 1,
                                          RoiDen + RoiDen \div 2,
                                          RoiDen + RoiDen \div 2)>>
    /\ Len(callResult.rois) = 1
    /\ callResult.rois[1].x = kTopScreenWidth - 1
    /\ callResult.rois[1].w = 1
    /\ callResult.rois[1].y = kTopScreenHeight - 1
    /\ callResult.rois[1].h = 1

\* C30: every read or write of a mutable field of the screen locator made
\* by one of its public operations happens while the calling thread holds
\* the locator's mutex.
C30_FieldAccessUnderMutex ==
    (lastAccess.kind # "none") => lastAccess.held

(***************************************************************************)
(* SpecOnce: DetectOnce called between arbitrary Detect and Reset calls of *)
(* the same locator.                                                       *)
(***************************************************************************)
\* A single top-screen-shaped quad lying in the lower half of the image.
LowTopQuad == Quad(17, 24, 47, 42, 100)

OnceFrameNames == FrameNames \cup {"low_top"}

OnceFrameOf(name) ==
    IF name = "low_top"
    THEN [empty |-> FALSE, candidates |-> <<LowTopQuad>>]
    ELSE FrameOf(name)

\* The split line of a locator that has not seen both screens yet.
kNoSplit == 0 - 4

InitOnce ==
    InitFSM({1}) /\ InitScreen({MaxCalibFrames}, {0}) /\ InitStrat({0}, {0})
    /\ InitOrch({FullConfig}, {FALSE}) /\ NoCall /\ NoThread /\ NoSteps /\ NoSingleRoi

\* A call of the public DetectOnce: const, it changes no field.
CallDetectOnce ==
    /\ \E name \in OnceFrameNames :
          /\ callName' = "DetectOnce"
          /\ callArgs' = name
          /\ callResult' = DetectOnce(OnceFrameOf(name), splitPointY)
    /\ UNCHANGED <<fsmVars, screenVars, stratVars, orchVars, lockVars, stepVars, roiVars>>

DetectBetween ==
    /\ detectCalls < MaxOnceDetects
    /\ \E name \in FrameNames : Detect(name)
    /\ UNCHANGED <<fsmVars, stratVars, orchVars, callVars, lockVars, stepVars,
                   roiVars>>

NextOnce == DetectBetween \/ DoResetDetector \/ CallDetectOnce

SpecOnce == InitOnce /\ [][NextOnce]_vars

\* C31: the result of DetectOnce on a frame is the result a freshly built
\* locator gives on that frame, whatever Detect and Reset calls came before:
\* it depends on the frame and the configuration only.
C31_DetectOnceStateless ==
    (callName = "DetectOnce")
        => callResult = DetectOnce(OnceFrameOf(callArgs), kNoSplit)

(***************************************************************************)
(* SpecSteps: the strategy ticked once per tracker update, through stays   *)
(* in states with action lists.  The tracker's state and its entry time    *)
(* are kept in `stay'; Tick gets the time in state the tracker reports.    *)
(***************************************************************************)
StepStates == {"play", "combo", "check"}

\* The verdicts handed to Tick: the verdict is read in the check state only.
StepVerdicts(cs) == IF cs = "check" THEN Verdicts ELSE {"none"}

\* The position in the list of the button step that builds this command,
\* 0 when there is none.
StepOfCommand(stateActions, command) ==
    LET fits(k) == /\ Len(stateActions[k].buttons) > 0
                   /\ BuildInputCommand(stateActions[k].buttons) = command
    IN  IF \E k \in 1..Len(stateActions) : fits(k)
        THEN CHOOSE k \in 1..Len(stateActions) : fits(k)
        ELSE 0

InitSteps ==
    /\ InitFSM({1}) /\ InitScreen({1}, {1}) /\ InitStrat({0}, {0})
    /\ InitOrch({FullConfig}, {FALSE}) /\ NoCall /\ NoThread /\ NoSteps /\ NoSingleRoi

\* One tick of the loop with the tracker in cs: the state was entered now
\* when it differs from the state of the last tick (the initial state was
\* entered at construction), and the strategy is ticked with the time in
\* state the tracker reports.
TickOnBody(cs, verdict) ==
    LET enteredAt == IF stay.state = "" THEN 0
                     ELSE IF cs # stay.state THEN now ELSE stay.enteredAt
        sofar == IF cs # stay.state THEN <<>> ELSE emitted
        stateActions == ConfigActions(cs)
    IN  /\ StratTickBody(cs, (now - enteredAt) \div UnitsPerMs, verdict, now)
        /\ stay' = [state |-> cs, enteredAt |-> enteredAt]
        /\ LET sent == decision'.action = "SendInput"
               pos == IF sent THEN StepOfCommand(stateActions, decision'.command)
                      ELSE 0
           IN  /\ emitted' = (IF sent THEN Append(sofar, pos) ELSE sofar)
               /\ lastEmit' = (IF sent /\ pos > 0
                               THEN [time |-> now,
                                     waitAfterMs |-> stateActions[pos].waitAfterMs]
                               ELSE lastEmit)

TickOn(cs, verdict) ==
    /\ TickOnBody(cs, verdict)
    /\ stratCalls' = stratCalls + 1

TickSteps ==
    /\ stratCalls < MaxStepCalls
    /\ \E cs \in StepStates : \E verdict \in StepVerdicts(cs) : TickOn(cs, verdict)
    /\ UNCHANGED <<fsmVars, screenVars, orchVars, callVars, lockVars, roiVars>>

OnStuckSteps ==
    /\ stratCalls < MaxStepCalls
    /\ StratOnStuck
    /\ UNCHANGED <<fsmVars, screenVars, orchVars, callVars, lockVars, stepVars,
                   roiVars>>

\* Reset() returns the strategy to its constructed state: what it sends
\* afterwards is counted anew.
RestartSteps ==
    /\ stratCalls < MaxStepCalls
    /\ StratReset(now)
    /\ stratCalls' = stratCalls + 1
    /\ emitted' = <<>>
    /\ UNCHANGED <<fsmVars, screenVars, orchVars, callVars, lockVars, lastEmit,
                   stay, roiVars>>

AdvanceSteps ==
    /\ now < MaxStepClock * UnitsPerMs
    /\ now' = now + UnitsPerMs
    /\ UNCHANGED <<fsmIdle, screenVars, stratVars, orchVars, callVars, lockVars,
                   stepVars, roiVars>>

NextSteps == TickSteps \/ OnStuckSteps \/ RestartSteps \/ AdvanceSteps

SpecSteps == InitSteps /\ [][NextSteps]_vars

\* The action list of the state of the current stay.
StayActions == ConfigActions(stay.state)

\* C32: within one stay the button steps of the state's list are sent in
\* list order, none skipped and a non-repeating step once; the step index
\* never passes a repeating step; after entry into another state the
\* sending starts again from the first button step of the new list.
C32_StepsInListOrder ==
    /\ \A i \in 1..Len(emitted) :
          /\ emitted[i] \in 1..Len(StayActions)
          /\ Len(StayActions[emitted[i]].buttons) > 0
          /\ \A k \in 1..(emitted[i] - 1) :
                Len(StayActions[k].buttons) > 0
                    => (/\ ~StayActions[k].repeat
                        /\ \E j \in 1..(i - 1) : emitted[j] = k)
    /\ \A i \in 1..(Len(emitted) - 1) :
          /\ emitted[i] <= emitted[i + 1]
          /\ (emitted[i] = emitted[i + 1]) => StayActions[emitted[i]].repeat
    /\ (lastState # "" /\ lastState = stay.state)
          => /\ actionIndex <= Len(StayActions)
             /\ \A k \in 1..actionIndex : ~StayActions[k].repeat
             /\ \A i \in 1..Len(emitted) :
                    IF StayActions[emitted[i]].repeat
                    THEN actionIndex = emitted[i] - 1
                    ELSE actionIndex >= emitted[i]

\* A stay in the state whose list is a wait, a button step and a repeating
\* step: the button step was sent once and the repeating step twice.
C32_Witness ==
    /\ stay.state = "play"
    /\ emitted = <<2, 3, 3>>
    /\ actionIndex = 2
    /\ stratOp = "Tick"

\* C33: once a button step has been sent, the strategy returns no further
\* SendInput before the waitAfterMs of the step sent has elapsed since it
\* was sent.
C33_CooldownOfSentStep ==
    [][(/\ stratCalls' # stratCalls
        /\ stratOp' \in {"Tick", "OnStuck"}
        /\ decision'.action = "SendInput"
        /\ lastEmit # NoEmit)
           => now - lastEmit.time >= lastEmit.waitAfterMs * UnitsPerMs]_vars

(***************************************************************************)
(* SpecChain: the feed of SpecHistory with updates that return nothing in  *)
(* between (frames showing the current state), long enough to prune the    *)
(* history once.  The clock is read when a transition is built only; `now' *)
(* is the last reading taken.                                              *)
(***************************************************************************)
InitChain == InitFSM({1}) /\ InitScreen({1}, {1}) /\ InitStrat({0}, {0})
    /\ InitOrch({FullConfig}, {FALSE}) /\ NoCall /\ NoThread /\ NoSteps /\ NoSingleRoi

TickChain ==
    /\ Len(allCommitted) < kHistoryMax + ChainExtra
    /\ \E f \in HistFrames : Update(f, now + 1)
    /\ now' = (IF fsmResult' # NoTransition THEN now + 1 ELSE now)
    /\ UNCHANGED <<screenVars, stratVars, orchVars, callVars, lockVars, stepVars,
                   roiVars>>

ResetChain ==
    /\ now < HistResetWindow
    /\ Reset(now)
    /\ UNCHANGED <<now, screenVars, stratVars, orchVars, callVars, lockVars,
                   stepVars, roiVars>>

NextChain == TickChain \/ ResetChain

SpecChain == InitChain /\ [][NextChain]_vars

\* Update returned the transition it committed: from the state before to
\* the state after, the entry time being the transition's timestamp.
ReturnedCommit ==
    /\ fsmResult' # NoTransition
    /\ fsmResult'.from = currentState
    /\ fsmResult'.to = currentState'
    /\ fsmResult'.from # fsmResult'.to
    /\ stateEnteredAt' = fsmResult'.timestamp
    /\ stateEnteredAt' = now'

\* Update returned nothing and left state, history and entry time alone.
ReturnedNothing ==
    /\ fsmResult' = NoTransition
    /\ UNCHANGED <<currentState, transitionHistory, stateEnteredAt>>

\* C34 as stated: every Update either returns the transition it committed
\* and the history grows by exactly that transition, or returns nothing and
\* leaves state, history and entry time unchanged.
C34_UpdateAppendsExactly ==
    [][lastOp' = "Update"
         => \/ /\ ReturnedCommit
               /\ transitionHistory' = Append(transitionHistory, fsmResult')
            \/ ReturnedNothing]_vars

\* C34, amended: as above, the history after a commit being the old one
\* with the transition appended, or the newest entries of that once it has
\* grown beyond kHistoryMax.
C34_UpdateAppendsThenPrunes ==
    [][lastOp' = "Update"
         => \/ /\ ReturnedCommit
               /\ LET h == Append(transitionHistory, fsmResult')
                  IN  \/ transitionHistory' = h
                      \/ /\ Len(h) > kHistoryMax
                         /\ transitionHistory' = SubSeq(h, kHistoryDrop + 1, Len(h))
            \/ ReturnedNothing]_vars

\* An Update has just committed the transition that made the history
\* overflow: the history holds the newest entries only.
C34_Witness ==
    /\ lastOp = "Update"
    /\ fsmResult # NoTransition
    /\ Len(allCommitted) = kHistoryMax + 1
    /\ Len(transitionHistory) = kHistoryMax + 1 - kHistoryDrop
    /\ transitionHistory[Len(transitionHistory)] = fsmResult

\* C35: the history is a chain, each entry starting where the one before it
\* ended, and its last entry ends in the current state.
C35_HistoryIsChain ==
    /\ \A i \in 1..(Len(transitionHistory) - 1) :
          transitionHistory[i].to = transitionHistory[i + 1].from
    /\ (transitionHistory # <<>>)
          => transitionHistory[Len(transitionHistory)].to = currentState

\* The history just pruned, and an Update after it that returned nothing.
C35_Witness ==
    /\ Len(allCommitted) = kHistoryMax + 1
    /\ Len(transitionHistory) = kHistoryMax + 1 - kHistoryDrop
    /\ lastOp = "Update"
    /\ fsmResult = NoTransition

\* C36: the result frozen by a calibration lock holds both screens as found
\* on the locking frame: neither of them is a held carry-over.
C36_LockedResultNotHeld ==
    calibrated
        => /\ Has(calibratedResult.topScreen)
           /\ Has(calibratedResult.bottomScreen)
           /\ ~calibratedResult.topScreen.held
           /\ ~calibratedResult.bottomScreen.held

\* The last Tick was made in the check state, at or after the check delay.
ResolvingTick ==
    /\ stratOp = "Tick"
    /\ tickInput.state = huntConfig.shinyCheckState
    /\ tickInput.timeInState >= huntConfig.shinyCheckDelayMs

\* C37: a Tick in the check state at or after the delay adds one to the
\* anomaly counter on a positive verdict and one to the encounter counter on
\* a negative one; every other Tick and every OnStuck leaves both counters
\* as they were; only Reset lowers them.
C37_CountersChangeOnVerdictOnly ==
    LET anomalies == stats.shiniesFound - prevStrat.stats.shiniesFound
        encounters == stats.encounters - prevStrat.stats.encounters
    IN  /\ (ResolvingTick /\ tickInput.verdict = "Shiny")
              => (anomalies = 1 /\ encounters = 0)
        /\ (ResolvingTick /\ tickInput.verdict = "NotShiny")
              => (anomalies = 0 /\ encounters = 1)
        /\ (stratOp = "Tick"
              /\ ~(ResolvingTick /\ tickInput.verdict \in {"Shiny", "NotShiny"}))
              => (anomalies = 0 /\ encounters = 0)
        /\ (stratOp = "OnStuck") => (anomalies = 0 /\ encounters = 0)
        /\ (stratOp = "Reset") => (stats.shiniesFound = 0 /\ stats.encounters = 0)
        /\ (stratOp # "Reset") => (anomalies >= 0 /\ encounters >= 0)

\* A second encounter counted, with a delay of 2 ms, on a Tick made at 2 ms
\* in the check state, after an OnStuck call.
C37_Witness ==
    /\ ResolvingTick
    /\ huntConfig.shinyCheckDelayMs = 2
    /\ tickInput.verdict = "NotShiny"
    /\ stats.encounters = 2
    /\ stats.shiniesFound = 0
    /\ stats.watchdogRecoveries = 1

\* The successors of a state in a list of state configurations.
SuccessorsIn(states, id) ==
    UNION { Range(states[i].transitionsTo) : i \in { j \in 1..Len(states) : states[j].id = id } }

\* The states reachable from those of S in any number of transitions.
RECURSIVE ReachableFrom(_, _)
ReachableFrom(states, S) ==
    LET next == S \cup UNION { SuccessorsIn(states, s) : s \in S }
    IN  IF next = S THEN S ELSE ReachableFrom(states, next)

\* C38: in the graph CreateXYStarterSR builds every state is reachable from
\* load_game, every state but soft_reset has soft_reset among its
\* successors, soft_reset leads to load_game only, no state is without
\* successor, and load_game is reachable from every state.
C38_GraphReturnsToLoadGame ==
    (callName = "CreateXYStarterSR" /\ ~callResult.threw) =>
        LET fsm == callResult.fsm
            ids == { fsm.states[i].id : i \in 1..Len(fsm.states) }
        IN  /\ fsm.initialState = "load_game"
            /\ ReachableFrom(fsm.states, {fsm.initialState}) = ids
            /\ \A s \in ids \ {"soft_reset"} :
                  "soft_reset" \in SuccessorsIn(fsm.states, s)
            /\ SuccessorsIn(fsm.states, "soft_reset") = {"load_game"}
            /\ \A s \in ids :
                  /\ SuccessorsIn(fsm.states, s) # {}
                  /\ SuccessorsIn(fsm.states, s) \subseteq ids
                  /\ "load_game" \in ReachableFrom(fsm.states, {s})

\* The tracker built from parameters for exactly the eleven states.
C38_Witness ==
    /\ callName = "CreateXYStarterSR"
    /\ callArgs.stateParams = Range(RequiredStates)
    /\ ~callResult.threw
    /\ Len(callResult.fsm.states) = Len(RequiredStates)
    /\ callResult.fsm.states[Len(RequiredStates)].transitionsTo = <<"load_game">>

(***************************************************************************)
(* SpecStay: the tracker stays in one state whose list has no repeating    *)
(* step; Tick keeps being called and the clock keeps advancing.  Readings  *)
(* are kept relative to a moving origin: once the clock shows              *)
(* MaxStayClock ms, a further advance moves the remembered readings back   *)
(* instead, so that every elapsed time below MaxStayClock ms is exact and  *)
(* every longer one reads MaxStayClock ms (no step waits longer).  The     *)
(* check state, whose list is run after a negative verdict only, is left   *)
(* out.                                                                    *)
(***************************************************************************)
StayStates ==
    { s \in {"combo", "stall", "play"} :
        \A i \in 1..Len(ConfigActions(s)) : ~ConfigActions(s)[i].repeat }

InitStay ==
    /\ InitFSM({1}) /\ InitScreen({1}, {1}) /\ InitStrat({0}, {0})
    /\ InitOrch({FullConfig}, {FALSE}) /\ NoCall /\ NoThread /\ NoSingleRoi
    /\ emitted = <<>>
    /\ lastEmit = NoEmit
    /\ stay \in [state : StayStates, enteredAt : {0}]

TickStay ==
    /\ TickOnBody(stay.state, "none")
    /\ stratCalls' = (stratCalls + 1) % StayTickCycle
    /\ UNCHANGED <<fsmVars, screenVars, orchVars, callVars, lockVars, roiVars>>

\* A reading moved back by one millisecond, not before the origin.
MovedBack(reading) == IF reading >= UnitsPerMs THEN reading - UnitsPerMs ELSE 0

AdvanceStay ==
    /\ (IF now < MaxStayClock * UnitsPerMs
        THEN /\ now' = now + UnitsPerMs
             /\ UNCHANGED <<lastActionTime, stay, lastEmit>>
        ELSE /\ now' = now
             /\ lastActionTime' = MovedBack(lastActionTime)
             /\ stay' = [stay EXCEPT !.enteredAt = MovedBack(@)]
             /\ lastEmit' = (IF lastEmit = NoEmit THEN NoEmit
                             ELSE [lastEmit EXCEPT !.time = MovedBack(@)]))
    /\ UNCHANGED <<fsmIdle, screenVars, orchVars, callVars, lockVars, roiVars,
                   huntConfig, stats, lastState, actionIndex,
                   waitingForShinyCheck, consecutiveStuckCount, decision,
                   stratOp, tickInput, stratGhosts, emitted>>

NextStay == TickStay \/ AdvanceStay

SpecStay ==
    InitStay /\ [][NextStay]_vars /\ WF_vars(TickStay) /\ WF_vars(AdvanceStay)

\* C39: in a stay in a state whose list has no repeating step, with Tick
\* called again and again and the clock advancing, the step index
\* eventually reaches the length of the list.
C39_EveryStepPassed ==
    <>(lastState = stay.state /\ actionIndex = Len(StayActions))

(***************************************************************************)
(* SpecSingleRoi: the single-ROI tracker (ConfigDrivenFSM) built from a    *)
(* profile with the states of stateConfigs, on arbitrary frames.  A frame  *)
(* is the confidence each state's rule yields on its ROI.                  *)
(***************************************************************************)
RoiFrames == [StateIds -> ConfLevels]

\* ConfigDrivenFSM::EvaluateRules: the first state, in profile order, of
\* highest confidence among those that meet their threshold ("" if none).
EvaluateRules(frame) ==
    LET passing == { i \in 1..Len(stateConfigs) :
                        /\ frame[stateConfigs[i].id] >= stateConfigs[i].topThreshold
                        /\ frame[stateConfigs[i].id] > 0 }
    IN  IF passing = {} THEN [state |-> "", confidence |-> 0]
        ELSE LET best == CHOOSE i \in passing :
                            /\ \A j \in passing :
                                  frame[stateConfigs[j].id] <= frame[stateConfigs[i].id]
                            /\ \A j \in passing :
                                  frame[stateConfigs[j].id] = frame[stateConfigs[i].id]
                                      => i <= j
             IN  [state |-> stateConfigs[best].id,
                  confidence |-> frame[stateConfigs[best].id]]

\* Update lines 38-52: whether the commit-time check lets the transition
\* from cur to target through.
RoiAllowed(cur, target) ==
    LET k == FindStateConfig(cur)
    IN  IF k # 0 /\ Len(stateConfigs[k].transitionsTo) > 0
        THEN target \in Range(stateConfigs[k].transitionsTo)
        ELSE TRUE

RoiFieldsBefore ==
    [currentState |-> roiCurrentState, pendingState |-> roiPendingState,
     history |-> roiHistory]

\* ConfigDrivenFSM::Update on a frame at clock reading t.
RoiUpdate(frame, t) ==
    LET result == EvaluateRules(frame)
        count == IF result.state = roiPendingState
                 THEN roiPendingFrameCount + 1 ELSE 1
        tr == [from |-> roiCurrentState, to |-> result.state, timestamp |-> t]
    IN  /\ (IF result.state = "" \/ result.confidence < kMinConfidence
            THEN /\ roiPendingFrameCount' = 0
                 /\ roiResult' = NoTransition
                 /\ UNCHANGED <<roiCurrentState, roiStateEnteredAt,
                                roiPendingState, roiHistory>>
            ELSE IF result.state = roiCurrentState
            THEN /\ roiPendingState' = ""
                 /\ roiPendingFrameCount' = 0
                 /\ roiResult' = NoTransition
                 /\ UNCHANGED <<roiCurrentState, roiStateEnteredAt, roiHistory>>
            ELSE IF count >= RoiDebounce /\ RoiAllowed(roiCurrentState, result.state)
            THEN /\ roiCurrentState' = result.state
                 /\ roiStateEnteredAt' = t
                 /\ roiPendingState' = result.state
                 /\ roiPendingFrameCount' = 0
                 /\ roiHistory' = RecordTransition(roiHistory, tr)
                 /\ roiResult' = tr
            ELSE /\ roiPendingState' = result.state
                 /\ roiPendingFrameCount' = count
                 /\ roiResult' = NoTransition
                 /\ UNCHANGED <<roiCurrentState, roiStateEnteredAt, roiHistory>>)
        /\ roiOp' = "Update"
        /\ roiPrev' = RoiFieldsBefore

\* ConfigDrivenFSM::ForceState at clock reading t.
RoiForceState(state, t) ==
    /\ roiCurrentState' = state
    /\ roiStateEnteredAt' = t
    /\ roiPendingState' = state
    /\ roiPendingFrameCount' = 0
    /\ roiHistory' = RecordTransition(roiHistory,
                        [from |-> roiCurrentState, to |-> state, timestamp |-> t])
    /\ roiResult' = NoTransition
    /\ roiOp' = "ForceState"
    /\ roiPrev' = RoiFieldsBefore

\* ConfigDrivenFSM::Reset at clock reading t.
RoiReset(t) ==
    /\ roiCurrentState' = roiInitialState
    /\ roiStateEnteredAt' = t
    /\ roiPendingState' = ""
    /\ roiPendingFrameCount' = 0
    /\ roiHistory' = <<>>
    /\ roiResult' = NoTransition
    /\ roiOp' = "Reset"
    /\ roiPrev' = RoiFieldsBefore

InitSingleRoi ==
    /\ InitFSM({1}) /\ InitScreen({1}, {1}) /\ InitStrat({0}, {0})
    /\ InitOrch({FullConfig}, {FALSE}) /\ NoCall /\ NoThread /\ NoSteps /\ NoSingleRoi

UpdateSingleRoi ==
    /\ Len(roiHistory) < MaxRoiCommits
    /\ \E f \in RoiFrames : RoiUpdate(f, now)
    /\ roiPendingFrameCount' <= MaxRoiPending
    /\ UNCHANGED <<fsmVars, screenVars, stratVars, orchVars, callVars, lockVars,
                   stepVars>>

ForceSingleRoi ==
    /\ Len(roiHistory) < MaxRoiCommits
    /\ \E s \in StateIds : RoiForceState(s, now)
    /\ UNCHANGED <<fsmVars, screenVars, stratVars, orchVars, callVars, lockVars,
                   stepVars>>

ResetSingleRoi ==
    /\ RoiReset(now)
    /\ UNCHANGED <<fsmVars, screenVars, stratVars, orchVars, callVars, lockVars,
                   stepVars>>

NextSingleRoi == UpdateSingleRoi \/ ForceSingleRoi \/ ResetSingleRoi

SpecSingleRoi == InitSingleRoi /\ [][NextSingleRoi]_vars

\* The targets listed for a state of the profile.
ListedTargets(id) ==
    LET k == FindStateConfig(id)
    IN  IF k = 0 THEN {} ELSE Range(stateConfigs[k].transitionsTo)

\* C40: Update of the single-ROI tracker commits A -> B only if B is listed
\* in A's transitionsTo, an empty list allowing nothing; a candidate that has
\* reached the debounce count and is not listed is dropped: after an Update
\* no pending candidate stands at or above the debounce count.
C40_SingleRoiCommitsListedOnly ==
    (roiOp = "Update") =>
        /\ (roiResult # NoTransition)
              => /\ roiResult.from = roiPrev.currentState
                 /\ roiResult.to = roiCurrentState
                 /\ roiResult.to \in ListedTargets(roiResult.from)
        /\ (roiResult = NoTransition)
              => /\ roiCurrentState = roiPrev.currentState
                 /\ roiPendingFrameCount < RoiDebounce

====
